---------------------------- MODULE Spec2Model ----------------------------
(***************************************************************************)
(* A model of btsnoop-extcap: the btsnoop -> pcap pipeline                 *)
(* (write_pcap_packets), the root negotiation (adb::root), the control     *)
(* packet handler and the capture session that main() runs with            *)
(* tokio::try_join!; and, each on its own, the command executor           *)
(* (exec_out), trim_end and the formatter of a MultiCheckConfig            *)
(* (rust-extcap).                                                          *)
(*                                                                         *)
(* Bytes are naturals 0..255 and byte strings are sequences of bytes.      *)
(* One action is one resumption of an async function: the code that runs   *)
(* from the completion of one .await to the next .await.                   *)
(***************************************************************************)
EXTENDS Integers, Sequences, FiniteSets, TLC

VARIABLES
    \* ---- write_pcap_packets (main.rs:69-113)
    input,          \* the bytes the input_reader will deliver before end of stream
    pos,            \* number of bytes consumed from input_reader
    ppc,            \* position in write_pcap_packets
    display_delay,  \* the display_delay argument, in clock ticks
    elapsed,        \* start_time.elapsed() as last sampled at main.rs:98
    packet_header,  \* the PacketHeader parsed at main.rs:92 (NoHeader outside a record)
    parsed,         \* history: the records whose payload has been read, with the
                    \* elapsed time sampled for each
    pcap,           \* what pcap_writer has written to output_writer
    write_result,   \* the outcome of write_pcap_packets
    flushed,        \* history: the streams flush() was called on, in order
    sink_full,      \* the reader of the output fifo has stopped reading and the
                    \* pipe is full: a write to output_writer blocks the thread
    \* ---- adb::root (adb.rs:80-120), one negotiation per caller
    rpc,            \* position of each caller in adb::root
    neg,            \* history: the stdout of the uid queries of the negotiation
    shell,          \* the RootShell (or the error) the last negotiation returned
    attempts,       \* history: how often adb::root was called and each command
                    \* of print_packets spawned, by whom and for which packet
    \* ---- the device and the child processes
    device,         \* what the device answers: uid, uid under su, logging mode
    children,       \* child processes whose handle is alive and not yet waited on
    orphans,        \* child processes whose handle was dropped without a wait
    \* ---- the capture session (main.rs:265-305)
    pc,             \* position of the two futures of try_join!
    local,          \* btsnoop_log_file_path has the `local:` prefix
    inbound,        \* control packets the host sends before closing the channel
    packet,         \* history: the control packets read so far, the last one
                    \* being the one handled
    lock,           \* the holder of the extcap_sender mutex
    outbox,         \* the messages print_packets is about to send, in order
    events,         \* history: mode changes invoked and outbound messages, in order
    session,        \* how try_join! ended
    \* ---- the functions checked on their own: exec_out, trim_end and the
    \* formatter of a MultiCheckConfig
    exec_req,       \* who builds a command, with which shell and command string
    exec_cmd,       \* the Command built for exec_req
    remote,         \* what the shell of the device makes of the command
    trim_in,        \* the bytes trim_end is called on
    trim_out,       \* history: the results of trim_end, each call made on the
                    \* result of the call before
    config,         \* the MultiCheckConfig that is formatted
    formatted       \* the lines ExtcapFormatter(&config) has written

pipeVars == <<input, pos, ppc, display_delay, elapsed, packet_header, parsed,
              pcap, write_result, flushed>>

rootVars == <<rpc, neg, shell, attempts>>

procVars == <<device, children, orphans>>

sessVars == <<pc, local, inbound, packet, lock, outbox, events, session>>

fnVars == <<exec_req, exec_cmd, remote, trim_in, trim_out, config, formatted>>

vars == <<pipeVars, sink_full, rootVars, procVars, sessVars, fnVars>>

----------------------------------------------------------------------------
(* Bounds of the model *)

\* most records in a source log
MaxRecords == 2
\* largest display_delay, in clock ticks
MaxDelay == 2
\* most bytes cut from the end of a source log
MaxTrunc == 2
\* most stray bytes appended after the last complete record
MaxJunk == 1
\* most control packets the host sends in a session
MaxPackets == 2

----------------------------------------------------------------------------
(* Byte strings *)

Min(a, b) == IF a < b THEN a ELSE b

Take(s, n) == SubSeq(s, 1, Min(n, Len(s)))

Drop(s, n) == SubSeq(s, n + 1, Len(s))

\* big-endian encoding of a u32 below 2^16 (what the model's source logs hold)
Be32(n) == <<0, 0, n \div 256, n % 256>>

\* u32::from_be_bytes, for values below 2^31
FromBe32(b) == ((b[1] * 256 + b[2]) * 256 + b[3]) * 256 + b[4]

\* u32 + k on the big-endian bytes of the u32, k < 256: the wrapped sum and
\* whether the addition overflowed 32 bits
AddU32(b, k) ==
    LET s4 == b[4] + k
        s3 == b[3] + (s4 \div 256)
        s2 == b[2] + (s3 \div 256)
        s1 == b[1] + (s2 \div 256)
    IN  [sum |-> <<s1 % 256, s2 % 256, s3 % 256, s4 % 256>>,
         overflow |-> s1 \div 256 = 1]

----------------------------------------------------------------------------
(* The btsnoop source format (btsnoop crate: FileHeader, PacketHeader) *)

FileHeaderLength == 16

PacketHeaderLength == 24

\* "btsnoop\0"
BtsnoopMagic == <<98, 116, 115, 110, 111, 111, 112, 0>>

BtsnoopVersion == 1

\* datalink type 1002 (HCI UART, H4)
DatalinkH4 == <<0, 0, 3, 234>>

\* FileHeader::parse: fails unless the magic tag and the version match
FileHeaderParse(buf) ==
    /\ SubSeq(buf, 1, 8) = BtsnoopMagic
    /\ FromBe32(SubSeq(buf, 9, 12)) = BtsnoopVersion

\* PacketHeader::parse on exactly PacketHeaderLength bytes: the fields are
\* fixed-width, big-endian, in this order, and every bit pattern parses
PacketHeaderParse(buf) ==
    [original_length |-> SubSeq(buf, 1, 4),
     included_length |-> FromBe32(SubSeq(buf, 5, 8)),
     flags           |-> FromBe32(SubSeq(buf, 9, 12)),
     drop_count      |-> FromBe32(SubSeq(buf, 13, 16)),
     timestamp       |-> SubSeq(buf, 17, 24)]

NoHeader == [included_length |-> -1]

----------------------------------------------------------------------------
(* Direction (btsnoop_ext.rs) *)

\* the HCI H4 packet type indicators that decide a direction
HciCommand == 1

HciEvent == 4

\* Direction::parse_from_payload(..).unwrap_or(Direction::Unknown), main.rs:100-101
ParseDirection(payload) ==
    IF payload = <<>> THEN "Unknown"
    ELSE IF payload[1] = HciCommand THEN "SentFromHost"
    ELSE IF payload[1] = HciEvent THEN "ReceivedByHost"
    ELSE "Unknown"

\* Direction::to_hci_pseudo_header: a fixed lookup
PseudoHeader(direction) ==
    CASE direction = "SentFromHost"   -> <<0, 0, 0, 0>>
      [] direction = "ReceivedByHost" -> <<0, 0, 0, 1>>
      [] OTHER                        -> <<255, 255, 255, 255>>

----------------------------------------------------------------------------
(* Source logs the pipeline is run on *)

Payloads == {<<>>, <<1>>, <<4>>, <<2, 7>>}

\* a source record as the device logged it: original_length >= included_length
SourceRecords ==
    ({[original_length |-> Len(p) + x, flags |-> x, drop_count |-> 0, payload |-> p] :
        p \in Payloads, x \in 0..1}
     \ {[original_length |-> 1, flags |-> 1, drop_count |-> 0, payload |-> <<>>],
        [original_length |-> 3, flags |-> 1, drop_count |-> 0, payload |-> <<2, 7>>]})
        \cup {[original_length |-> 1, flags |-> 0, drop_count |-> 1, payload |-> <<4>>]}

RECURSIVE SeqsUpTo(_, _)
SeqsUpTo(S, n) ==
    IF n = 0 THEN {<<>>}
    ELSE LET shorter == SeqsUpTo(S, n - 1)
         IN  shorter \cup {Append(s, x) : s \in {t \in shorter : Len(t) = n - 1}, x \in S}

EncodeRecord(r) ==
    Be32(r.original_length) \o Be32(Len(r.payload)) \o Be32(r.flags) \o Be32(r.drop_count)
        \o <<0, 0, 0, 0, 0, 0, 0, 0>> \o r.payload

RECURSIVE EncodeRecords(_)
EncodeRecords(rs) ==
    IF rs = <<>> THEN <<>> ELSE EncodeRecord(Head(rs)) \o EncodeRecords(Tail(rs))

GoodFileHeader == BtsnoopMagic \o Be32(BtsnoopVersion) \o DatalinkH4

\* a wrong magic tag, and a wrong version
BadFileHeaders ==
    {<<98, 116, 115, 110, 111, 111, 112, 1>> \o Be32(BtsnoopVersion) \o DatalinkH4,
     BtsnoopMagic \o Be32(2) \o DatalinkH4}

EncodeLog(rs) == GoodFileHeader \o EncodeRecords(rs)

WellFormedLogs == {EncodeLog(rs) : rs \in SeqsUpTo(SourceRecords, MaxRecords)}

\* a log cut short, or followed by the first bytes of one more record header
Damaged(log) ==
    {Take(log, Len(log) - k) : k \in 1..Min(MaxTrunc, Len(log))}
        \cup {log \o [i \in 1..k |-> 0] : k \in 1..MaxJunk}

PipeInputs ==
    WellFormedLogs
        \cup UNION {Damaged(log) : log \in WellFormedLogs}
        \cup {h \o EncodeRecord([original_length |-> 1, flags |-> 0, drop_count |-> 0, payload |-> <<4>>]) :
                h \in BadFileHeaders}

----------------------------------------------------------------------------
(* Scheduling: tokio::try_join! polls its two futures on one task, so the  *)
(* code of one future between two awaits runs without the other future     *)
(* running, and a blocking call blocks both.                               *)

Who == {"control", "capture"}

Other(who) == IF who = "control" THEN "capture" ELSE "control"

\* positions at which a future is suspended in an .await, or has ended
AwaitPositions ==
    {"read", "lock", "wait_set_mode", "send_first", "send_second",
     "open_file", "lock_message", "write_message", "sleep_declined", "wait_mode",
     "sleep_closed", "done", "failed", "dropped", "panicked"}

RootAwaitPositions == {"wait_root", "wait_id", "wait_su"}

PipeAwaitPositions == {"read_file_header", "read_packet_header", "read_payload"}

Suspended(who) ==
    \/ pc[who] \in AwaitPositions
    \/ pc[who] = "root" /\ rpc[who] \in RootAwaitPositions
    \/ pc[who] = "pipeline" /\ ppc \in PipeAwaitPositions

\* the future `who` can be resumed
Runs(who) == session = "running" /\ Suspended(Other(who))

\* the commands of the child processes of `live`
Commands(live) == {c[2] : c \in live}

\* a join that keeps polling the other future after an Err of `who`
FailAlone(who, live) ==
    /\ session' = IF pc[Other(who)] = "done" THEN "failed" ELSE "running"
    /\ pc' = [pc EXCEPT ![who] = "failed"]
    /\ lock' = IF lock = who THEN "free" ELSE lock
    /\ children' = children \ {c \in live : c[1] = who}
    /\ orphans' = orphans \cup Commands({c \in live : c[1] = who})

\* the future `who` returns Err: try_join! returns at once and drops the other
\* future, and with the futures every child handle they own
Fail(who, live) ==
    /\ session' = "failed"
    /\ pc' = [w \in Who |-> IF w = who THEN "failed"
                            ELSE IF pc[w] = "done" THEN "done" ELSE "dropped"]
    /\ lock' = "free"
    /\ children' = {}
    /\ orphans' = orphans \cup Commands(live)

\* the future `who` panics: the task unwinds and drops both futures
Panic(who, live) ==
    /\ session' = "panicked"
    /\ pc' = [w \in Who |-> IF w = who THEN "panicked"
                            ELSE IF pc[w] = "done" THEN "done" ELSE "dropped"]
    /\ lock' = "free"
    /\ children' = {}
    /\ orphans' = orphans \cup Commands(live)

\* the future `who` returns Ok: try_join! returns once both have
Succeed(who) ==
    /\ pc' = [pc EXCEPT ![who] = "done"]
    /\ session' = IF pc[Other(who)] = "done" THEN "completed" ELSE "running"

\* a main that returns the Err of try_join!
ExitStatusPropagated ==
    CASE session \in {"panicked", "failed"} -> 101
      [] session = "completed" -> 0
      [] OTHER -> -1

\* main.rs:301-307: an Err of try_join! is logged and main returns Ok(()); a
\* panic unwinds out of main
ExitStatus ==
    CASE session = "panicked" -> 101
      [] session \in {"completed", "failed"} -> 0
      [] OTHER -> -1

\* history: a call of adb::root or the spawn of a command: what was
\* attempted, by which future and, for the control loop, while handling which
\* packet
Attempt(what, who) == <<what, who, IF who = "control" THEN Len(packet) ELSE 0>>

NoAttempts == [a \in {} |-> 0]

\* history: what BtsnoopLogSettings::mode got from getprop is kept in attempts
\* under this key: the stdout or, when the spawn or the wait failed, NotQueried
QueryAnswer == <<"getprop_answer", "capture", 0>>

\* `f` with the answer of getprop
Answered(f, stdout) ==
    [k \in DOMAIN f \cup {QueryAnswer} |-> IF k = QueryAnswer THEN stdout ELSE f[k]]

\* attempts with one more `a`
Attempted(a) ==
    [k \in DOMAIN attempts \cup {a} |->
        IF k # a THEN attempts[k]
        ELSE IF a \in DOMAIN attempts THEN attempts[a] + 1 ELSE 1]

----------------------------------------------------------------------------
(* adb::root, adb.rs:80-120 *)

Max(S) == CHOOSE x \in S : \A y \in S : y <= x

\* u8::is_ascii_whitespace: space, tab, line feed, form feed, carriage return
IsAsciiWhitespace(c) == c \in {32, 9, 10, 12, 13}

\* a trim that cuts at the first byte that is not whitespace
trim_end_at_first(bytes) ==
    LET keep == {i \in 1..Len(bytes) : ~IsAsciiWhitespace(bytes[i])}
    IN  IF keep = {} THEN <<>> ELSE SubSeq(bytes, 1, CHOOSE i \in keep : \A j \in keep : i <= j)

\* adb.rs:24-29
trim_end(bytes) ==
    LET keep == {i \in 1..Len(bytes) : ~IsAsciiWhitespace(bytes[i])}
    IN  IF keep = {} THEN <<>> ELSE SubSeq(bytes, 1, Max(keep))

\* b"0"
Zero == <<48>>

\* a uid test that trims nothing
IsRootUidUntrimmed(shell_uid) == shell_uid = Zero

\* adb.rs:97 and adb.rs:105
IsRootUid(shell_uid) == trim_end(shell_uid) = Zero

NotQueried == <<255>>

NoQueries == [direct |-> NotQueried, su |-> NotQueried]

\* how a wait on a child ends: with some exit status, or with an I/O error
WaitOutcomes == {"exit_0", "exit_1", "wait_error"}

\* adb.rs:81-85: `adb root` is spawned
RootStart(who) ==
    /\ Runs(who) /\ pc[who] = "root" /\ rpc[who] = "call"
    /\ neg' = [neg EXCEPT ![who] = NoQueries]
    /\ attempts' = Attempted(Attempt("adb_root", who))
    /\ \E spawned \in BOOLEAN :
           IF spawned
           THEN /\ rpc' = [rpc EXCEPT ![who] = "wait_root"]
                /\ children' = children \cup {<<who, "adb_root">>}
                /\ shell' = [shell EXCEPT ![who] = "None"]
           ELSE /\ rpc' = [rpc EXCEPT ![who] = "returned"]
                /\ shell' = [shell EXCEPT ![who] = "IoError"]
                /\ UNCHANGED children
    /\ UNCHANGED <<fnVars, pipeVars, sink_full, device, orphans, sessVars>>

\* adb.rs:86-91: the wait on `adb root` completes with Ok, its exit status is
\* not looked at and `id -u` is spawned; or it completes with Err, propagated
\* by `?`
RootRequestDone(who) ==
    /\ Runs(who) /\ pc[who] = "root" /\ rpc[who] = "wait_root"
    /\ \E outcome \in WaitOutcomes, spawned \in BOOLEAN :
           /\ IF outcome # "wait_error" /\ spawned
              THEN /\ rpc' = [rpc EXCEPT ![who] = "wait_id"]
                   /\ children' = (children \ {<<who, "adb_root">>}) \cup {<<who, "id_u">>}
                   /\ UNCHANGED shell
              ELSE /\ rpc' = [rpc EXCEPT ![who] = "returned"]
                   /\ shell' = [shell EXCEPT ![who] = "IoError"]
                   /\ children' = children \ {<<who, "adb_root">>}
           /\ attempts' = IF outcome # "wait_error"
                          THEN Attempted(Attempt("id_u", who)) ELSE attempts
    /\ UNCHANGED <<fnVars, pipeVars, sink_full, neg, device, orphans, sessVars>>

\* adb.rs:92-101 and 115-119: the wait on `id -u` completes; uid 0 returns a
\* shell that needs no su, any other output spawns `su -c id -u`
RootDirectUidDone(who) ==
    /\ Runs(who) /\ pc[who] = "root" /\ rpc[who] = "wait_id"
    /\ \E outcome \in WaitOutcomes, spawned \in BOOLEAN :
           IF outcome = "wait_error"
           THEN /\ rpc' = [rpc EXCEPT ![who] = "returned"]
                /\ shell' = [shell EXCEPT ![who] = "IoError"]
                /\ children' = children \ {<<who, "id_u">>}
                /\ UNCHANGED neg
           ELSE /\ neg' = [neg EXCEPT ![who].direct = device.id_u]
                /\ IF IsRootUid(device.id_u)
                   THEN /\ rpc' = [rpc EXCEPT ![who] = "returned"]
                        /\ shell' = [shell EXCEPT ![who] = "Direct"]
                        /\ children' = children \ {<<who, "id_u">>}
                   ELSE IF spawned
                   THEN /\ rpc' = [rpc EXCEPT ![who] = "wait_su"]
                        /\ children' = (children \ {<<who, "id_u">>})
                                           \cup {<<who, "su_id_u">>}
                        /\ UNCHANGED shell
                   ELSE /\ rpc' = [rpc EXCEPT ![who] = "returned"]
                        /\ shell' = [shell EXCEPT ![who] = "IoError"]
                        /\ children' = children \ {<<who, "id_u">>}
    /\ UNCHANGED <<fnVars, pipeVars, sink_full, attempts, device, orphans, sessVars>>

\* a negotiation that starts over when su does not give uid 0
RootSuUidDoneRetrying(who) ==
    /\ Runs(who) /\ pc[who] = "root" /\ rpc[who] = "wait_su"
    /\ children' = children \ {<<who, "su_id_u">>}
    /\ \E outcome \in WaitOutcomes :
           IF outcome = "wait_error"
           THEN /\ shell' = [shell EXCEPT ![who] = "IoError"]
                /\ rpc' = [rpc EXCEPT ![who] = "returned"]
                /\ UNCHANGED neg
           ELSE /\ neg' = [neg EXCEPT ![who].su = device.su_id_u]
                /\ IF IsRootUid(device.su_id_u)
                   THEN /\ shell' = [shell EXCEPT ![who] = "ViaSu"]
                        /\ rpc' = [rpc EXCEPT ![who] = "returned"]
                   ELSE /\ shell' = shell
                        /\ rpc' = [rpc EXCEPT ![who] = "call"]
    /\ UNCHANGED <<fnVars, pipeVars, sink_full, attempts, device, orphans, sessVars>>

\* adb.rs:102-113: the wait on `su -c id -u` completes
RootSuUidDone(who) ==
    /\ Runs(who) /\ pc[who] = "root" /\ rpc[who] = "wait_su"
    /\ rpc' = [rpc EXCEPT ![who] = "returned"]
    /\ children' = children \ {<<who, "su_id_u">>}
    /\ \E outcome \in WaitOutcomes :
           IF outcome = "wait_error"
           THEN /\ shell' = [shell EXCEPT ![who] = "IoError"]
                /\ UNCHANGED neg
           ELSE /\ neg' = [neg EXCEPT ![who].su = device.su_id_u]
                /\ shell' = [shell EXCEPT ![who] =
                       IF IsRootUid(device.su_id_u) THEN "ViaSu" ELSE "RootDeclined"]
    /\ UNCHANGED <<fnVars, pipeVars, sink_full, attempts, device, orphans, sessVars>>

\* RootShell.needs_su of a returned shell
needs_su(s) == s = "ViaSu"

----------------------------------------------------------------------------
(* write_pcap_packets, main.rs:69-113 *)

Remaining == Len(input) - pos

\* the elapsed time is sampled once per record (main.rs:98); the clock is
\* monotonic, its ticks are finer than one read of the source, and every
\* value above display_delay compares alike, so the sample saturates
ElapsedCap == MaxDelay + 1

NextElapsed == {Min(elapsed + dt, ElapsedCap) : dt \in 1..2}

\* a display test that lets the record at the boundary through
ShouldDisplayInclusive(e, delay) == e >= delay

\* main.rs:98
ShouldDisplay(e, delay) == e > delay

\* AsyncReadExt::try_read_exact::<n> (r-extcap): all or nothing at the start of
\* a read, an error once the stream ends part-way
TryReadExact(remaining, n) ==
    IF remaining = 0 THEN "None"
    ELSE IF remaining < n THEN "UnexpectedEof"
    ELSE "Some"

\* read_exact(&mut buf[..n]) followed by `?`, main.rs:81 and main.rs:95
ReadExact(remaining, n) == IF remaining < n THEN "UnexpectedEof" ELSE "Ok"

\* a payload read that accepts whatever the stream still holds
ReadAvailable(remaining, n) == "Ok"

\* main.rs:94-95: the payload is read with read_exact
ReadPayloadExact(remaining, n) == ReadExact(remaining, n)

\* a payload buffer that takes nothing from the stream
PacketBufUnread(header) == <<>>

\* main.rs:94-95: packet_buf, the included_length bytes at the cursor
PacketBuf(header) ==
    SubSeq(input, pos + 1, Min(pos + header.included_length, Len(input)))

\* a capture record whose direction is read off the flags of the header
PcapPacketByFlags(header, packet_buf) ==
    [timestamp |-> header.timestamp,
     data      |-> PseudoHeader(IF header.flags % 2 = 0 THEN "SentFromHost"
                                ELSE "ReceivedByHost") \o packet_buf,
     orig_len  |-> AddU32(header.original_length, 4).sum]

\* a capture record that never classifies the payload
PcapPacketUnclassified(header, packet_buf) ==
    [timestamp |-> header.timestamp,
     data      |-> PseudoHeader("Unknown") \o packet_buf,
     orig_len  |-> AddU32(header.original_length, 4).sum]

\* main.rs:103-107: the PcapPacket written for a record
PcapPacket(header, packet_buf) ==
    [timestamp |-> header.timestamp,
     data      |-> PseudoHeader(ParseDirection(packet_buf)) \o packet_buf,
     orig_len  |-> AddU32(header.original_length, 4).sum]

\* a pipeline that creates the pcap writer, which writes the pcap file header,
\* before it reads the source header
ReadFileHeaderWriterFirst ==
    /\ Runs("capture") /\ pc["capture"] = "pipeline"
    /\ ppc = "read_file_header"
    /\ pcap' = [pcap EXCEPT !.header = TRUE]
    /\ IF ReadExact(Remaining, FileHeaderLength) # "Ok"
       THEN /\ pos' = Len(input)
            /\ ppc' = "returned"
            /\ write_result' = "IoError"
       ELSE /\ pos' = pos + FileHeaderLength
            /\ IF FileHeaderParse(SubSeq(input, pos + 1, pos + FileHeaderLength))
               THEN /\ ppc' = "read_packet_header"
                    /\ UNCHANGED write_result
               ELSE /\ ppc' = "panicked"
                    /\ write_result' = "Panic"
    /\ UNCHANGED <<input, display_delay, elapsed, packet_header, parsed, flushed>>
    /\ UNCHANGED <<fnVars, sink_full, rootVars, procVars, sessVars>>

\* main.rs:74-86: read_exact of the file header completes, the header is
\* parsed, the pcap file header is written and the clock is started
ReadFileHeader ==
    /\ Runs("capture") /\ pc["capture"] = "pipeline"
    /\ ppc = "read_file_header"
    /\ IF ReadExact(Remaining, FileHeaderLength) # "Ok"
       THEN \* read_exact: UnexpectedEof, propagated by `?`
            /\ pos' = Len(input)
            /\ ppc' = "returned"
            /\ write_result' = "IoError"
            /\ UNCHANGED pcap
       ELSE /\ pos' = pos + FileHeaderLength
            /\ IF FileHeaderParse(SubSeq(input, pos + 1, pos + FileHeaderLength))
               THEN /\ ppc' = "read_packet_header"
                    /\ pcap' = [pcap EXCEPT !.header = TRUE]
                    /\ UNCHANGED write_result
               ELSE \* .unwrap() on the parse error
                    /\ ppc' = "panicked"
                    /\ write_result' = "Panic"
                    /\ UNCHANGED pcap
    /\ UNCHANGED <<input, display_delay, elapsed, packet_header, parsed, flushed>>
    /\ UNCHANGED <<fnVars, sink_full, rootVars, procVars, sessVars>>

\* main.rs:87-94: try_read_exact::<24> completes
ReadPacketHeader ==
    /\ Runs("capture") /\ pc["capture"] = "pipeline"
    /\ ppc = "read_packet_header"
    /\ IF TryReadExact(Remaining, PacketHeaderLength) = "None"
       THEN \* Ok(None): the loop ends and the function returns Ok(())
            /\ ppc' = "returned"
            /\ write_result' = "Ok"
            /\ UNCHANGED <<pos, packet_header>>
       ELSE IF TryReadExact(Remaining, PacketHeaderLength) = "UnexpectedEof"
       THEN \* end of stream inside the header: `?` propagates the error
            /\ pos' = Len(input)
            /\ ppc' = "returned"
            /\ write_result' = "IoError"
            /\ UNCHANGED packet_header
       ELSE /\ pos' = pos + PacketHeaderLength
            /\ packet_header' =
                   PacketHeaderParse(SubSeq(input, pos + 1, pos + PacketHeaderLength))
            /\ ppc' = "read_payload"
            /\ UNCHANGED write_result
    /\ UNCHANGED <<input, display_delay, elapsed, parsed, pcap, flushed>>
    /\ UNCHANGED <<fnVars, sink_full, rootVars, procVars, sessVars>>

\* main.rs:95-111: read_exact of the payload completes, the record is written
\* if the display delay has passed, and stdout is flushed. write_packet is a
\* blocking write to the fifo: with the pipe full the thread stays in it.
ReadPayload ==
    /\ Runs("capture") /\ pc["capture"] = "pipeline"
    /\ ppc = "read_payload"
    /\ IF ReadPayloadExact(Remaining, packet_header.included_length) # "Ok"
       THEN /\ pos' = Len(input)
            /\ ppc' = "returned"
            /\ write_result' = "IoError"
            /\ packet_header' = NoHeader
            /\ UNCHANGED <<elapsed, parsed, pcap, flushed>>
       ELSE \E e \in NextElapsed :
            LET packet_buf == PacketBuf(packet_header)
                sum == AddU32(packet_header.original_length, 4)
            IN  /\ pos' = pos + Len(packet_buf)
                /\ elapsed' = e
                /\ parsed' = Append(parsed, [header |-> packet_header,
                                             payload |-> packet_buf,
                                             elapsed |-> e])
                /\ IF ~ShouldDisplay(e, display_delay)
                   THEN /\ ppc' = "read_packet_header"
                        /\ packet_header' = NoHeader
                        /\ flushed' = Append(flushed, "stdout")
                        /\ UNCHANGED <<pcap, write_result>>
                   ELSE \* original_length + 4 overflows u32: a build with
                        \* overflow checks panics, a build without them wraps
                        \E checks \in IF sum.overflow THEN BOOLEAN ELSE {FALSE} :
                            IF checks
                            THEN /\ ppc' = "panicked"
                                 /\ write_result' = "Panic"
                                 /\ packet_header' = NoHeader
                                 /\ UNCHANGED <<pcap, flushed>>
                            ELSE IF sink_full
                            THEN /\ ppc' = "blocked_write"
                                 /\ UNCHANGED <<packet_header, pcap, write_result, flushed>>
                            ELSE /\ ppc' = "read_packet_header"
                                 /\ packet_header' = NoHeader
                                 /\ pcap' = [pcap EXCEPT !.packets =
                                        Append(@, PcapPacket(packet_header, packet_buf))]
                                 /\ flushed' = Append(flushed, "stdout")
                                 /\ UNCHANGED write_result
    /\ UNCHANGED <<input, display_delay>>
    /\ UNCHANGED <<fnVars, sink_full, rootVars, procVars, sessVars>>

\* main.rs:103-111: the reader of the fifo has made room and the blocked
\* write_packet returns
WriteUnblocked ==
    /\ session = "running" /\ pc["capture"] = "pipeline"
    /\ ppc = "blocked_write"
    /\ ~sink_full
    /\ ppc' = "read_packet_header"
    /\ packet_header' = NoHeader
    /\ pcap' = [pcap EXCEPT !.packets =
           Append(@, PcapPacket(packet_header, parsed[Len(parsed)].payload))]
    /\ flushed' = Append(flushed, "stdout")
    /\ UNCHANGED <<input, pos, display_delay, elapsed, parsed, write_result>>
    /\ UNCHANGED <<fnVars, sink_full, rootVars, procVars, sessVars>>

\* no command is being built and trim_end is not being called
NoRequest == [caller |-> "none"]

NoCommand == [program |-> "none"]

NotRun == <<[status |-> "not run"]>>

NoConfig == [call |-> "none"]

NotFormatted == <<[kind |-> "none"]>>

NoCalls ==
    /\ exec_req = NoRequest
    /\ exec_cmd = NoCommand
    /\ remote = NotRun
    /\ trim_in = <<>>
    /\ trim_out = <<>>
    /\ config = NoConfig
    /\ formatted = NotFormatted

\* the pipeline before its first read
PipeStart ==
    /\ pos = 0
    /\ ppc = "read_file_header"
    /\ elapsed = 0
    /\ packet_header = NoHeader
    /\ parsed = <<>>
    /\ pcap = [header |-> FALSE, packets |-> <<>>]
    /\ write_result = "None"
    /\ flushed = <<>>

\* no negotiation has run and no child process exists
RootIdle ==
    /\ rpc = [w \in Who |-> "idle"]
    /\ neg = [w \in Who |-> NoQueries]
    /\ attempts = NoAttempts
    /\ shell = [w \in Who |-> "None"]
    /\ children = {}
    /\ orphans = {}

\* write_pcap_packets on its own: any source log, any display delay, a sink
\* that takes every write
PipeInit ==
    /\ input \in PipeInputs
    /\ display_delay \in 0..MaxDelay
    /\ PipeStart
    /\ NoCalls
    /\ sink_full = FALSE
    /\ RootIdle
    /\ device = [id_u |-> Zero, su_id_u |-> Zero, logmode |-> <<>>]
    /\ pc = [control |-> "done", capture |-> "pipeline"]
    /\ local = TRUE
    /\ inbound = <<>>
    /\ packet = <<>>
    /\ lock = "free"
    /\ outbox = <<>>
    /\ events = <<>>
    /\ session = "running"

PipeNext == ReadFileHeader \/ ReadPacketHeader \/ ReadPayload

SpecPipe == PipeInit /\ [][PipeNext]_vars

----------------------------------------------------------------------------
(* adb::root on its own: any answers of the device to the two uid queries *)

\* "0", "0\n", "0\r\n", "0 \t", "", "\n", "1000\n", "2000", " 0", "0\n0", "00", "10\n"
UidOutputs ==
    {<<48>>, <<48, 10>>, <<48, 13, 10>>, <<48, 32, 9>>, <<>>, <<10>>,
     <<49, 48, 48, 48, 10>>, <<50, 48, 48, 48>>, <<32, 48>>, <<48, 10, 48>>,
     <<48, 48>>, <<49, 48, 10>>}

RootInit ==
    /\ input = GoodFileHeader
    /\ display_delay = 0
    /\ PipeStart
    /\ NoCalls
    /\ sink_full = FALSE
    /\ neg = [w \in Who |-> NoQueries]
    /\ attempts = NoAttempts
    /\ shell = [w \in Who |-> "None"]
    /\ children = {}
    /\ orphans = {}
    /\ \E caller \in Who :
           /\ rpc = [w \in Who |-> IF w = caller THEN "call" ELSE "idle"]
           /\ pc = [w \in Who |-> IF w = caller THEN "root" ELSE "done"]
    /\ device \in [id_u : UidOutputs, su_id_u : UidOutputs, logmode : {<<>>}]
    /\ local = FALSE
    /\ inbound = <<>>
    /\ packet = <<>>
    /\ lock = "free"
    /\ outbox = <<>>
    /\ events = <<>>
    /\ session = "running"

RootNext ==
    \E who \in Who :
        \/ RootStart(who)
        \/ RootRequestDone(who)
        \/ RootDirectUidDone(who)
        \/ RootSuUidDone(who)

SpecRoot == RootInit /\ [][RootNext]_vars

----------------------------------------------------------------------------
(* The extcap controls and the device's logging mode *)

\* BT_LOGGING_ON_BUTTON.control_number, main.rs:210
BT_LOGGING_ON_BUTTON == 0

\* BT_LOGGING_OFF_BUTTON.control_number, main.rs:214
BT_LOGGING_OFF_BUTTON == 1

\* button.set_enabled(enabled): the outbound packet that enables or disables
\* a control
SetEnabled(control_number, enabled) ==
    [kind |-> "set_enabled", control |-> control_number, enabled |-> enabled]

\* main.rs:164-166
InfoRootDeclined == [kind |-> "info_message", text |-> "Unable to get root access"]

\* main.rs:187
StatusLoggingOff == [kind |-> "status_message", text |-> "BTsnoop logging is turned off"]

\* main.rs:198-200
StatusClosed == [kind |-> "status_message", text |-> "BT capture connection closed"]

\* an outbound message or a mode change, as recorded in events: who caused it
\* and, for the control loop, the ordinal of the packet it was handling
Event(msg, who, seq) == [msg |-> msg, by |-> who, seq |-> seq]

\* "full", "filtered", "disabled"
ModeStr(mode) ==
    CASE mode = "Full"     -> <<102, 117, 108, 108>>
      [] mode = "Filtered" -> <<102, 105, 108, 116, 101, 114, 101, 100>>
      [] mode = "Disabled" -> <<100, 105, 115, 97, 98, 108, 101, 100>>

\* a mode read without trimming the stdout of getprop
ParseModeUntrimmed(stdout) ==
    IF stdout = ModeStr("Full") THEN "Full"
    ELSE IF stdout = ModeStr("Filtered") THEN "Filtered"
    ELSE "Disabled"

\* adb.rs:233-238: the mode read from the stdout of getprop
ParseMode(stdout) ==
    LET out == trim_end(stdout)
    IN  IF out = ModeStr("Full") THEN "Full"
        ELSE IF out = ModeStr("Filtered") THEN "Filtered"
        ELSE "Disabled"

\* main.rs:173-188: the messages sent after the startup mode query
StartupMessages(mode_result) ==
    IF mode_result = "Full"
    THEN <<SetEnabled(BT_LOGGING_ON_BUTTON, FALSE), SetEnabled(BT_LOGGING_OFF_BUTTON, TRUE)>>
    ELSE <<SetEnabled(BT_LOGGING_OFF_BUTTON, FALSE), SetEnabled(BT_LOGGING_ON_BUTTON, TRUE),
           StatusLoggingOff>>

\* a dispatch that ignores a control number it does not know
DispatchLenient(p) ==
    IF p.command # "Set" THEN "ignore"
    ELSE IF p.control_number = BT_LOGGING_ON_BUTTON THEN "Full"
    ELSE IF p.control_number = BT_LOGGING_OFF_BUTTON THEN "Disabled"
    ELSE "ignore"

\* main.rs:122-143: what handle_control_packet does with a packet once the
\* negotiation has returned a shell
Dispatch(p) ==
    IF p.command # "Set" THEN "ignore"
    ELSE IF p.control_number = BT_LOGGING_ON_BUTTON THEN "Full"
    ELSE IF p.control_number = BT_LOGGING_OFF_BUTTON THEN "Disabled"
    ELSE "panic"

\* updates that enable the button just used
HandlerUpdatesInverted(mode) ==
    IF mode = "Full"
    THEN <<SetEnabled(BT_LOGGING_ON_BUTTON, TRUE), SetEnabled(BT_LOGGING_OFF_BUTTON, FALSE)>>
    ELSE <<SetEnabled(BT_LOGGING_OFF_BUTTON, TRUE), SetEnabled(BT_LOGGING_ON_BUTTON, FALSE)>>

\* main.rs:126-131 and main.rs:135-140: the two updates that follow a mode change
HandlerUpdates(mode) ==
    IF mode = "Full"
    THEN <<SetEnabled(BT_LOGGING_ON_BUTTON, FALSE), SetEnabled(BT_LOGGING_OFF_BUTTON, TRUE)>>
    ELSE <<SetEnabled(BT_LOGGING_OFF_BUTTON, FALSE), SetEnabled(BT_LOGGING_ON_BUTTON, TRUE)>>

----------------------------------------------------------------------------
(* The extcap_sender mutex (tokio::sync::Mutex: waiters are served in      *)
(* order, so a released lock passes to the future already waiting for it)  *)

WaitsForLock(who) ==
    IF who = "control" THEN pc["control"] = "lock" ELSE pc["capture"] = "lock_message"

\* the holder after `who` releases the lock
Released(who) == IF WaitsForLock(Other(who)) THEN Other(who) ELSE "free"

----------------------------------------------------------------------------
(* The control loop, main.rs:277-291, and handle_control_packet,           *)
(* main.rs:115-146                                                         *)

CurrentPacket == packet[Len(packet)]

\* main.rs:279-284: read_control_packet completes. A closed channel ends the
\* loop with Ok; a packet is handled under the lock, starting with adb::root
ReadControlPacket ==
    /\ Runs("control") /\ pc["control"] = "read"
    /\ IF inbound = <<>>
       THEN /\ Succeed("control")
            /\ UNCHANGED <<inbound, packet, lock, rpc>>
       ELSE /\ inbound' = Tail(inbound)
            /\ packet' = Append(packet, Head(inbound))
            /\ session' = session
            /\ IF lock = "free"
               THEN /\ lock' = "control"
                    /\ pc' = [pc EXCEPT !["control"] = "root"]
                    /\ rpc' = [rpc EXCEPT !["control"] = "call"]
               ELSE /\ pc' = [pc EXCEPT !["control"] = "lock"]
                    /\ UNCHANGED <<lock, rpc>>
    /\ UNCHANGED <<fnVars, pipeVars, sink_full, neg, shell, attempts, procVars, local, outbox,
                   events>>

\* main.rs:284 and main.rs:121: the lock is granted and the handler starts
ControlLockGranted ==
    /\ Runs("control") /\ pc["control"] = "lock"
    /\ lock = "control"
    /\ pc' = [pc EXCEPT !["control"] = "root"]
    /\ rpc' = [rpc EXCEPT !["control"] = "call"]
    /\ UNCHANGED <<fnVars, pipeVars, sink_full, neg, shell, attempts, procVars, local, inbound, packet,
                   lock, outbox, events, session>>

\* main.rs:121-143: adb::root has returned; `?` returns its error, a Set
\* command for a button invokes set_mode, which spawns its command, any other
\* control number panics, and any other command is ignored
HandleControlPacket ==
    /\ Runs("control") /\ pc["control"] = "root" /\ rpc["control"] = "returned"
    /\ rpc' = [rpc EXCEPT !["control"] = "idle"]
    /\ LET action == Dispatch(CurrentPacket)
       IN  IF shell["control"] \in {"IoError", "RootDeclined"}
           THEN /\ Fail("control", children)
                /\ UNCHANGED events
           ELSE IF action = "ignore"
           THEN /\ pc' = [pc EXCEPT !["control"] = "read"]
                /\ lock' = Released("control")
                /\ UNCHANGED <<children, orphans, events, session>>
           ELSE IF action = "panic"
           THEN /\ Panic("control", children)
                /\ UNCHANGED events
           ELSE /\ events' = Append(events,
                       Event([kind |-> "set_mode", mode |-> action], "control", Len(packet)))
                /\ \E spawned \in BOOLEAN :
                       IF spawned
                       THEN /\ children' = children \cup {<<"control", "setprop">>}
                            /\ pc' = [pc EXCEPT !["control"] = "wait_set_mode"]
                            /\ UNCHANGED <<orphans, lock, session>>
                       ELSE Fail("control", children)
    /\ UNCHANGED <<fnVars, pipeVars, sink_full, neg, shell, attempts, device, local, inbound,
                   packet, outbox>>

\* a handler that goes on to the updates when the wait on the mode change
\* returns an error
SetModeDoneIgnoringError ==
    /\ Runs("control") /\ pc["control"] = "wait_set_mode"
    /\ \E outcome \in WaitOutcomes, changed \in BOOLEAN :
           /\ (outcome = "exit_0") => changed
           /\ device' = IF changed /\ outcome # "wait_error"
                        THEN [device EXCEPT !.logmode =
                                 ModeStr(Dispatch(CurrentPacket)) \o <<10>>]
                        ELSE device
           /\ events' = IF outcome = "wait_error" THEN events
                        ELSE Append(events,
                                 Event([kind |-> "set_mode_returned"], "control", Len(packet)))
    /\ children' = children \ {<<"control", "setprop">>}
    /\ pc' = [pc EXCEPT !["control"] = "send_first"]
    /\ UNCHANGED <<orphans, lock, session>>
    /\ UNCHANGED <<fnVars, pipeVars, sink_full, rootVars, local, inbound, packet, outbox>>

\* adb.rs:220-223 and main.rs:126-127: the wait on the mode change completes,
\* whatever its exit status, and the first update is sent
SetModeDone ==
    /\ Runs("control") /\ pc["control"] = "wait_set_mode"
    /\ \E outcome \in WaitOutcomes, changed \in BOOLEAN :
           IF outcome = "wait_error"
           THEN /\ Fail("control", children \ {<<"control", "setprop">>})
                /\ UNCHANGED <<device, events>>
           ELSE /\ (outcome = "exit_0") => changed
                /\ device' = IF changed
                             THEN [device EXCEPT !.logmode =
                                      ModeStr(Dispatch(CurrentPacket)) \o <<10>>]
                             ELSE device
                /\ children' = children \ {<<"control", "setprop">>}
                /\ events' = Append(events,
                       Event([kind |-> "set_mode_returned"], "control", Len(packet)))
                /\ pc' = [pc EXCEPT !["control"] = "send_first"]
                /\ UNCHANGED <<orphans, lock, session>>
    /\ UNCHANGED <<fnVars, pipeVars, sink_full, rootVars, local, inbound, packet, outbox>>

\* main.rs:126-131 and main.rs:135-140: the first update has been written
FirstUpdateSent ==
    /\ Runs("control") /\ pc["control"] = "send_first"
    /\ events' = Append(events,
           Event(HandlerUpdates(Dispatch(CurrentPacket))[1], "control", Len(packet)))
    /\ pc' = [pc EXCEPT !["control"] = "send_second"]
    /\ UNCHANGED <<fnVars, pipeVars, sink_full, rootVars, procVars, local, inbound, packet,
                   lock, outbox, session>>

\* a control loop that keeps the lock guard from one packet to the next
SecondUpdateSentKeepingLock ==
    /\ Runs("control") /\ pc["control"] = "send_second"
    /\ events' = Append(events,
           Event(HandlerUpdates(Dispatch(CurrentPacket))[2], "control", Len(packet)))
    /\ pc' = [pc EXCEPT !["control"] = "read"]
    /\ UNCHANGED <<fnVars, pipeVars, sink_full, rootVars, procVars, local, inbound, packet,
                   lock, outbox, session>>

\* main.rs:129-131, main.rs:138-140 and main.rs:286: the second update has been
\* written, the handler returns Ok and the lock guard is dropped
SecondUpdateSent ==
    /\ Runs("control") /\ pc["control"] = "send_second"
    /\ events' = Append(events,
           Event(HandlerUpdates(Dispatch(CurrentPacket))[2], "control", Len(packet)))
    /\ pc' = [pc EXCEPT !["control"] = "read"]
    /\ lock' = Released("control")
    /\ UNCHANGED <<fnVars, pipeVars, sink_full, rootVars, procVars, local, inbound, packet,
                   outbox, session>>

----------------------------------------------------------------------------
(* print_packets, main.rs:148-206 *)

\* print_packets calls extcap_control.send / info_message / status_message
\* with `msgs` next: the sender locks the mutex for each message
BeginSend(msgs) ==
    /\ outbox' = msgs
    /\ IF lock = "free"
       THEN /\ lock' = "capture"
            /\ pc' = [pc EXCEPT !["capture"] = "write_message"]
       ELSE /\ lock' = lock
            /\ pc' = [pc EXCEPT !["capture"] = "lock_message"]

\* a print_packets that negotiates root once the local file is open
FileOpenedThenRoot ==
    /\ Runs("capture") /\ pc["capture"] = "open_file"
    /\ \E opened \in BOOLEAN :
           IF opened
           THEN /\ pc' = [pc EXCEPT !["capture"] = "root"]
                /\ rpc' = [rpc EXCEPT !["capture"] = "call"]
                /\ UNCHANGED <<children, orphans, lock, session>>
           ELSE Fail("capture", children) /\ UNCHANGED rpc
    /\ UNCHANGED <<fnVars, pipeVars, sink_full, neg, shell, attempts, device, local,
                   inbound, packet, outbox, events>>

\* main.rs:160: File::open completes; `?` returns its error
FileOpened ==
    /\ Runs("capture") /\ pc["capture"] = "open_file"
    /\ \E opened \in BOOLEAN :
           IF opened
           THEN /\ pc' = [pc EXCEPT !["capture"] = "pipeline"]
                /\ UNCHANGED <<children, orphans, lock, session>>
           ELSE Fail("capture", children)
    /\ UNCHANGED <<fnVars, pipeVars, sink_full, rootVars, device, local, inbound, packet,
                   outbox, events>>

\* main.rs:162-173: adb::root has returned. RootDeclined is reported before it
\* is returned, any other error is returned at once, and with a shell the
\* logging mode is queried; a query that cannot be spawned counts as not Full
PrintPacketsRooted ==
    /\ Runs("capture") /\ pc["capture"] = "root" /\ rpc["capture"] = "returned"
    /\ rpc' = [rpc EXCEPT !["capture"] = "idle"]
    /\ IF shell["capture"] = "RootDeclined"
       THEN /\ BeginSend(<<InfoRootDeclined>>)
            /\ UNCHANGED <<children, orphans, session>>
       ELSE IF shell["capture"] = "IoError"
       THEN /\ Fail("capture", children)
            /\ UNCHANGED outbox
       ELSE \E spawned \in BOOLEAN :
               IF spawned
               THEN /\ children' = children \cup {<<"capture", "getprop">>}
                    /\ pc' = [pc EXCEPT !["capture"] = "wait_mode"]
                    /\ UNCHANGED <<orphans, lock, outbox, session>>
               ELSE /\ BeginSend(StartupMessages("Err"))
                    /\ UNCHANGED <<children, orphans, session>>
    /\ attempts' = IF shell["capture"] \in {"RootDeclined", "IoError"}
                   THEN attempts
                   ELSE IF pc'["capture"] = "wait_mode"
                   THEN Attempted(Attempt("getprop", "capture"))
                   ELSE Answered(Attempted(Attempt("getprop", "capture")), NotQueried)
    /\ UNCHANGED <<fnVars, pipeVars, sink_full, neg, shell, device, local, inbound, packet, events>>

\* adb.rs:232-238 and main.rs:173-187: the wait on getprop completes
ModeQueryDone ==
    /\ Runs("capture") /\ pc["capture"] = "wait_mode"
    /\ children' = children \ {<<"capture", "getprop">>}
    /\ \E outcome \in WaitOutcomes :
           /\ BeginSend(StartupMessages(IF outcome = "wait_error" THEN "Err"
                                        ELSE ParseMode(device.logmode)))
           /\ attempts' = Answered(attempts, IF outcome = "wait_error" THEN NotQueried
                                              ELSE device.logmode)
    /\ UNCHANGED <<fnVars, pipeVars, sink_full, rpc, neg, shell, device, orphans, local, inbound,
                   packet, events, session>>

\* the mutex is granted to the sender of print_packets
CaptureLockGranted ==
    /\ Runs("capture") /\ pc["capture"] = "lock_message"
    /\ lock = "capture"
    /\ pc' = [pc EXCEPT !["capture"] = "write_message"]
    /\ UNCHANGED <<fnVars, pipeVars, sink_full, rootVars, procVars, local, inbound, packet,
                   lock, outbox, events, session>>

\* a message of print_packets has been written and the lock released. After
\* the startup messages the tail command is spawned (main.rs:189-196), and
\* `?` returns the error of a failed spawn
MessageSent ==
    /\ Runs("capture") /\ pc["capture"] = "write_message"
    /\ events' = Append(events, Event(Head(outbox), "capture", 0))
    /\ attempts' = IF Tail(outbox) = <<>> /\ Head(outbox) \notin {InfoRootDeclined, StatusClosed}
                   THEN Attempted(Attempt("tail", "capture"))
                   ELSE attempts
    /\ IF Tail(outbox) # <<>>
       THEN \* the next message locks again, behind a waiting control loop
            /\ outbox' = Tail(outbox)
            /\ IF WaitsForLock("control")
               THEN /\ lock' = "control"
                    /\ pc' = [pc EXCEPT !["capture"] = "lock_message"]
               ELSE UNCHANGED <<lock, pc>>
            /\ UNCHANGED <<children, orphans, session>>
       ELSE /\ outbox' = <<>>
            /\ IF Head(outbox) = InfoRootDeclined
               THEN /\ pc' = [pc EXCEPT !["capture"] = "sleep_declined"]
                    /\ lock' = Released("capture")
                    /\ UNCHANGED <<children, orphans, session>>
               ELSE IF Head(outbox) = StatusClosed
               THEN /\ pc' = [pc EXCEPT !["capture"] = "sleep_closed"]
                    /\ lock' = Released("capture")
                    /\ UNCHANGED <<children, orphans, session>>
               ELSE \E spawned \in BOOLEAN :
                       IF spawned
                       THEN /\ children' = children \cup {<<"capture", "tail">>}
                            /\ pc' = [pc EXCEPT !["capture"] = "pipeline"]
                            /\ lock' = Released("capture")
                            /\ UNCHANGED <<orphans, session>>
                       ELSE Fail("capture", children)
    /\ UNCHANGED <<fnVars, pipeVars, sink_full, rpc, neg, shell, device, local, inbound, packet>>

\* main.rs:167-168: after the pause RootDeclined is returned
DeclinedSleepDone ==
    /\ Runs("capture") /\ pc["capture"] = "sleep_declined"
    /\ Fail("capture", children)
    /\ UNCHANGED <<fnVars, pipeVars, sink_full, rootVars, device, local, inbound, packet,
                   outbox, events>>

\* main.rs:196-200: write_pcap_packets has returned; the Child of the tail
\* command goes out of scope without a wait, and the final status is sent
PipelineReturned ==
    /\ session = "running" /\ pc["capture"] = "pipeline"
    /\ ppc = "returned"
    /\ children' = children \ {<<"capture", "tail">>}
    /\ orphans' = orphans \cup Commands(children \cap {<<"capture", "tail">>})
    /\ BeginSend(<<StatusClosed>>)
    /\ UNCHANGED <<fnVars, pipeVars, sink_full, rootVars, device, local, inbound, packet,
                   events, session>>

\* a panic in write_pcap_packets (main.rs:83, main.rs:106) unwinds the task
PipelinePanicked ==
    /\ session = "running" /\ pc["capture"] = "pipeline"
    /\ ppc = "panicked"
    /\ Panic("capture", children)
    /\ UNCHANGED <<fnVars, pipeVars, sink_full, rootVars, device, local, inbound, packet,
                   outbox, events>>

\* main.rs:204-205: after the pause the result of write_pcap_packets is returned
ClosedSleepDone ==
    /\ Runs("capture") /\ pc["capture"] = "sleep_closed"
    /\ IF write_result = "Ok"
       THEN /\ Succeed("capture")
            /\ UNCHANGED <<lock, children, orphans>>
       ELSE Fail("capture", children)
    /\ UNCHANGED <<fnVars, pipeVars, sink_full, rootVars, device, local, inbound, packet,
                   outbox, events>>

----------------------------------------------------------------------------
(* The host: the reader of the output fifo *)

\* the reader stops reading and the pipe fills up. The state of the pipe
\* shows only in write_packet, so it is drawn just before a record is written
SinkFills ==
    /\ session = "running" /\ pc["capture"] = "pipeline" /\ ppc = "read_payload"
    /\ ~sink_full
    /\ sink_full' = TRUE
    /\ UNCHANGED <<fnVars, pipeVars, rootVars, procVars, sessVars>>

\* the reader reads again
SinkDrains ==
    /\ session = "running" /\ ppc = "blocked_write"
    /\ sink_full
    /\ sink_full' = FALSE
    /\ UNCHANGED <<fnVars, pipeVars, rootVars, procVars, sessVars>>

----------------------------------------------------------------------------
(* A capture session, main.rs:265-305 *)

ControlPackets ==
    {[command |-> "Set", control_number |-> BT_LOGGING_ON_BUTTON],
     [command |-> "Set", control_number |-> BT_LOGGING_OFF_BUTTON],
     [command |-> "Set", control_number |-> 2],
     [command |-> "Initialized", control_number |-> 0]}

\* a log of one record, a log that ends inside its first record header, and
\* a log with a wrong magic tag
SessionInputs ==
    {EncodeLog(<<[original_length |-> 1, flags |-> 0, drop_count |-> 0, payload |-> <<4>>]>>),
     Take(EncodeLog(<<[original_length |-> 1, flags |-> 0, drop_count |-> 0, payload |-> <<4>>]>>),
          FileHeaderLength + 1),
     <<98, 116, 115, 110, 111, 111, 112, 1>> \o Be32(BtsnoopVersion) \o DatalinkH4}

\* uid 0 at once and logging on; uid 0 under su only and logging off; no root
SessionDevices ==
    {[id_u |-> <<48, 10>>, su_id_u |-> <<48, 10>>,
      logmode |-> ModeStr("Full") \o <<10>>],
     [id_u |-> <<50, 48, 48, 48, 10>>, su_id_u |-> <<48, 13, 10>>,
      logmode |-> ModeStr("Disabled") \o <<10>>],
     [id_u |-> <<50, 48, 48, 48, 10>>, su_id_u |-> <<>>,
      logmode |-> ModeStr("Full") \o <<10>>]}

\* main.rs:272-300 at the first poll of try_join!: the control loop waits for
\* a packet and print_packets opens the local file or calls adb::root
Init ==
    /\ input \in SessionInputs
    /\ display_delay = 0
    /\ PipeStart
    /\ NoCalls
    /\ sink_full = FALSE
    /\ neg = [w \in Who |-> NoQueries]
    /\ attempts = NoAttempts
    /\ shell = [w \in Who |-> "None"]
    /\ children = {}
    /\ orphans = {}
    /\ device \in SessionDevices
    /\ local \in BOOLEAN
    /\ rpc = [w \in Who |-> IF w = "capture" /\ ~local THEN "call" ELSE "idle"]
    /\ pc = [w \in Who |-> IF w = "control" THEN "read"
                           ELSE IF local THEN "open_file" ELSE "root"]
    /\ inbound \in SeqsUpTo(ControlPackets, MaxPackets)
    /\ packet = <<>>
    /\ lock = "free"
    /\ outbox = <<>>
    /\ events = <<>>
    /\ session = "running"

Next ==
    \/ ReadControlPacket
    \/ ControlLockGranted
    \/ HandleControlPacket
    \/ SetModeDone
    \/ FirstUpdateSent
    \/ SecondUpdateSent
    \/ \E who \in Who :
        \/ RootStart(who)
        \/ RootRequestDone(who)
        \/ RootDirectUidDone(who)
        \/ RootSuUidDone(who)
    \/ FileOpened
    \/ PrintPacketsRooted
    \/ ModeQueryDone
    \/ CaptureLockGranted
    \/ MessageSent
    \/ DeclinedSleepDone
    \/ ReadFileHeader
    \/ ReadPacketHeader
    \/ ReadPayload
    \/ WriteUnblocked
    \/ PipelineReturned
    \/ PipelinePanicked
    \/ ClosedSleepDone
    \/ SinkFills
    \/ SinkDrains

Spec == Init /\ [][Next]_vars

----------------------------------------------------------------------------
(* A capture session in which what the program waits for completes: the    *)
(* device commands of the handler terminate and a message written to the   *)
(* control pipe is taken. Nothing is assumed of the reader of the fifo.     *)

\* most control packets the host sends in such a session
MaxLivePackets == 1

LiveInit ==
    /\ input \in SessionInputs
    /\ display_delay = 0
    /\ PipeStart
    /\ NoCalls
    /\ sink_full = FALSE
    /\ neg = [w \in Who |-> NoQueries]
    /\ attempts = NoAttempts
    /\ shell = [w \in Who |-> "None"]
    /\ children = {}
    /\ orphans = {}
    /\ device \in SessionDevices
    /\ local \in BOOLEAN
    /\ rpc = [w \in Who |-> IF w = "capture" /\ ~local THEN "call" ELSE "idle"]
    /\ pc = [w \in Who |-> IF w = "control" THEN "read"
                           ELSE IF local THEN "open_file" ELSE "root"]
    /\ inbound \in SeqsUpTo(ControlPackets, MaxLivePackets)
    /\ packet = <<>>
    /\ lock = "free"
    /\ outbox = <<>>
    /\ events = <<>>
    /\ session = "running"

\* a step of the handler of a control packet, from the grant of the lock to
\* its release
HandlerStep ==
    \/ ControlLockGranted
    \/ HandleControlPacket
    \/ SetModeDone
    \/ FirstUpdateSent
    \/ SecondUpdateSent
    \/ RootStart("control")
    \/ RootRequestDone("control")
    \/ RootDirectUidDone("control")
    \/ RootSuUidDone("control")

\* a step of the sender of print_packets, from the grant of the lock to its
\* release
SenderStep == CaptureLockGranted \/ MessageSent

SpecLive == LiveInit /\ [][Next]_vars /\ WF_vars(HandlerStep) /\ WF_vars(SenderStep)

----------------------------------------------------------------------------
(* The startup of a device session, main.rs:162-196, over the answers of   *)
(* getprop                                                                 *)

MaxStartupPackets == 1

\* "full\n", "full", "full \r\n", "filtered\n", "disabled\n", "Full\n", "fullx",
\* "\n" and no output at all
LogModeOutputs ==
    {ModeStr("Full") \o <<10>>, ModeStr("Full"), ModeStr("Full") \o <<32, 13, 10>>,
     ModeStr("Filtered") \o <<10>>, ModeStr("Disabled") \o <<10>>,
     <<70, 117, 108, 108, 10>>, ModeStr("Full") \o <<120>>, <<10>>, <<>>}

\* devices that give uid 0 at once, one that gives it under su, and one that
\* gives no root
StartupDevices ==
    {[id_u |-> <<48, 10>>, su_id_u |-> <<48, 10>>, logmode |-> m] : m \in LogModeOutputs}
        \cup {[id_u |-> <<50, 48, 48, 48, 10>>, su_id_u |-> <<48, 10>>,
                logmode |-> ModeStr("Full") \o <<10>>],
              [id_u |-> <<50, 48, 48, 48, 10>>, su_id_u |-> <<>>,
                logmode |-> ModeStr("Full") \o <<10>>]}

StartupInit ==
    /\ input \in SessionInputs
    /\ display_delay = 0
    /\ PipeStart
    /\ NoCalls
    /\ sink_full = FALSE
    /\ neg = [w \in Who |-> NoQueries]
    /\ attempts = NoAttempts
    /\ shell = [w \in Who |-> "None"]
    /\ children = {}
    /\ orphans = {}
    /\ local \in BOOLEAN
    /\ device \in IF local THEN {d \in StartupDevices : d.logmode = <<>>} ELSE StartupDevices
    /\ rpc = [w \in Who |-> IF w = "capture" /\ ~local THEN "call" ELSE "idle"]
    /\ pc = [w \in Who |-> IF w = "control" THEN "read"
                           ELSE IF local THEN "open_file" ELSE "root"]
    /\ inbound \in SeqsUpTo({p \in ControlPackets : Dispatch(p) \in {"Full", "Disabled"}},
                            MaxStartupPackets)
    /\ packet = <<>>
    /\ lock = "free"
    /\ outbox = <<>>
    /\ events = <<>>
    /\ session = "running"

SpecStartup == StartupInit /\ [][Next]_vars

----------------------------------------------------------------------------
(* The shell command executor: RootShell::exec_out, adb.rs:59-76, and      *)
(* exec_out, adb.rs:129-134, with the configuration each caller adds       *)

MaxCmdLen == 3

\* the bytes command strings are made of: a space " ' \ $ | ;
CmdBytes == {97, 32, 34, 39, 92, 36, 124, 59}

CommandStrings == SeqsUpTo(CmdBytes, MaxCmdLen)

\* "su -c " and " | cat"
SuC == <<115, 117, 32, 45, 99, 32>>

PipeCat == <<32, 124, 32, 99, 97, 116>>

\* "id -u" and "su -c id -u"
IdU == <<105, 100, 32, 45, 117>>

SuIdU == SuC \o IdU

\* shlex::quote (shlex 1.x): the bytes that make it quote a string, and the
\* bytes it escapes with a backslash inside the double quotes
ShlexSpecial ==
    {124, 38, 59, 60, 62, 40, 41, 36, 96, 92, 34, 39, 32, 9, 13, 10, 42, 63, 91, 35,
     126, 61, 37}

ShlexEscaped == {36, 96, 34, 92}

RECURSIVE ShlexEscape(_)
ShlexEscape(s) ==
    IF s = <<>> THEN <<>>
    ELSE (IF Head(s) \in ShlexEscaped THEN <<92, Head(s)>> ELSE <<Head(s)>>)
             \o ShlexEscape(Tail(s))

\* a quote that leaves every string as it is
QuoteNever(s) == s

\* adb.rs:71: shlex::quote(command)
ShlexQuote(s) ==
    IF s = <<>> THEN <<34, 34>>
    ELSE IF \E i \in DOMAIN s : s[i] \in ShlexSpecial
    THEN <<34>> \o ShlexEscape(s) \o <<34>>
    ELSE s

\* adb.rs:59-76: RootShell::exec_out
RootShellExecOut(needs, command) ==
    [program |-> "adb",
     args    |-> <<"-s", "serial", "exec-out",
                  IF ~needs THEN command ELSE SuC \o ShlexQuote(command) \o PipeCat>>,
     stdout  |-> "inherit",
     stderr  |-> "inherit"]

\* adb.rs:129-134: exec_out
AdbExecOut(command) ==
    [program |-> "adb",
     args    |-> <<"-s", "serial", "exec-out", command>>,
     stdout  |-> "inherit",
     stderr  |-> "null"]

\* the callers of RootShell::exec_out: BtsnoopLogSettings::mode (adb.rs:228),
\* BtsnoopLogSettings::set_mode (adb.rs:210) and print_packets (main.rs:190)
RootShellCallers == {"mode", "set_mode", "print_packets"}

\* the callers of exec_out: the two uid queries of root (adb.rs:88, adb.rs:98)
UidCallers == {"root_id_u", "root_su_id_u"}

\* the Command a caller spawns: what exec_out returns, with the streams the
\* caller sets on it
BuildCommand(req) ==
    CASE req.caller = "root_id_u" ->
             [AdbExecOut(req.command) EXCEPT !.stdout = "piped", !.stderr = "null"]
      [] req.caller = "root_su_id_u" ->
             [AdbExecOut(req.command) EXCEPT !.stdout = "piped", !.stderr = "null"]
      [] req.caller = "mode" ->
             [RootShellExecOut(req.needs_su, req.command) EXCEPT !.stdout = "piped"]
      [] req.caller = "set_mode" ->
             RootShellExecOut(req.needs_su, req.command)
      [] req.caller = "print_packets" ->
             [RootShellExecOut(req.needs_su, req.command) EXCEPT !.stdout = "piped"]

ExecRequests ==
    {[caller |-> "root_id_u", needs_su |-> FALSE, command |-> IdU],
     [caller |-> "root_su_id_u", needs_su |-> FALSE, command |-> SuIdU]}
        \cup [caller : RootShellCallers, needs_su : BOOLEAN, command : CommandStrings]

\* what the shell of the device reads: a word, an operator, or something it
\* would expand or cannot parse
Word(bytes) == [word |-> bytes]

Operator(c) == [op |-> c]

Unparsed == [error |-> "expansion or unterminated quote"]

ShellBlank == {32, 9}

ShellOperators == {124, 38, 59, 60, 62, 40, 41, 10}

\* $ ` * ? [ ~ #
ShellExpanding == {36, 96, 42, 63, 91, 126, 35}

\* inside double quotes a backslash escapes only these: $ ` " \
ShellDqEscapable == {36, 96, 34, 92}

\* the tokens a POSIX shell reads from the bytes s[i..], with `open` telling
\* whether a word has begun, `word` its bytes so far and `toks` the tokens
\* already read
RECURSIVE ShellTokens(_, _, _, _, _, _)
ShellTokens(s, i, mode, open, word, toks) ==
    LET closed == IF open THEN Append(toks, Word(word)) ELSE toks
    IN  IF i > Len(s)
        THEN IF mode = "plain" THEN closed ELSE <<Unparsed>>
        ELSE LET c == s[i]
             IN  CASE mode = "sq" ->
                          IF c = 39 THEN ShellTokens(s, i + 1, "plain", TRUE, word, toks)
                          ELSE ShellTokens(s, i + 1, "sq", TRUE, Append(word, c), toks)
                   [] mode = "dq" ->
                          IF c = 34 THEN ShellTokens(s, i + 1, "plain", TRUE, word, toks)
                          ELSE IF c = 92 /\ i < Len(s) /\ s[i + 1] \in ShellDqEscapable
                          THEN ShellTokens(s, i + 2, "dq", TRUE, Append(word, s[i + 1]), toks)
                          ELSE IF c = 92 /\ i < Len(s) /\ s[i + 1] = 10
                          THEN ShellTokens(s, i + 2, "dq", TRUE, word, toks)
                          ELSE IF c \in {36, 96} THEN <<Unparsed>>
                          ELSE ShellTokens(s, i + 1, "dq", TRUE, Append(word, c), toks)
                   [] OTHER ->
                          IF c = 39 THEN ShellTokens(s, i + 1, "sq", TRUE, word, toks)
                          ELSE IF c = 34 THEN ShellTokens(s, i + 1, "dq", TRUE, word, toks)
                          ELSE IF c = 92
                          THEN IF i = Len(s) THEN Append(toks, Word(Append(word, c)))
                               ELSE IF s[i + 1] = 10
                               THEN ShellTokens(s, i + 2, "plain", open, word, toks)
                               ELSE ShellTokens(s, i + 2, "plain", TRUE,
                                                Append(word, s[i + 1]), toks)
                          ELSE IF c \in ShellBlank
                          THEN ShellTokens(s, i + 1, "plain", FALSE, <<>>, closed)
                          ELSE IF c \in ShellOperators
                          THEN ShellTokens(s, i + 1, "plain", FALSE, <<>>,
                                           Append(closed, Operator(c)))
                          ELSE IF c \in ShellExpanding THEN <<Unparsed>>
                          ELSE ShellTokens(s, i + 1, "plain", TRUE, Append(word, c), toks)

\* the shell of the device reads the command string adb exec-out hands it
ShellReads(command) == ShellTokens(command, 1, "plain", FALSE, <<>>, <<>>)

\* a caller builds its Command
ExecOutCalled ==
    /\ exec_req # NoRequest /\ exec_cmd = NoCommand
    /\ exec_cmd' = BuildCommand(exec_req)
    /\ UNCHANGED <<pipeVars, sink_full, rootVars, procVars, sessVars, exec_req, remote,
                   trim_in, trim_out, config, formatted>>

\* the Command is spawned and the shell of the device reads its last argument
RemoteShellRuns ==
    /\ exec_cmd # NoCommand /\ remote = NotRun
    /\ remote' = ShellReads(exec_cmd.args[4])
    /\ UNCHANGED <<pipeVars, sink_full, rootVars, procVars, sessVars, exec_req, exec_cmd,
                   trim_in, trim_out, config, formatted>>

\* nothing of a capture session is running
NoSession ==
    /\ input = <<>>
    /\ display_delay = 0
    /\ PipeStart
    /\ sink_full = FALSE
    /\ RootIdle
    /\ device = [id_u |-> Zero, su_id_u |-> Zero, logmode |-> <<>>]
    /\ pc = [w \in Who |-> "done"]
    /\ local = TRUE
    /\ inbound = <<>>
    /\ packet = <<>>
    /\ lock = "free"
    /\ outbox = <<>>
    /\ events = <<>>
    /\ session = "completed"

ExecInit ==
    /\ NoSession
    /\ exec_req \in ExecRequests
    /\ exec_cmd = NoCommand
    /\ remote = NotRun
    /\ trim_in = <<>>
    /\ trim_out = <<>>
    /\ config = NoConfig
    /\ formatted = NotFormatted

ExecNext == ExecOutCalled \/ RemoteShellRuns

SpecExec == ExecInit /\ [][ExecNext]_vars

----------------------------------------------------------------------------
(* trim_end on its own: any byte string, trimmed once and then once more   *)

\* longest byte string trimmed
MaxTrimLen == 3

\* space, tab, LF, vertical tab, form feed, CR, NUL and "h"
TrimBytes == {32, 9, 10, 11, 12, 13, 0, 104}

TrimInputs == SeqsUpTo(TrimBytes, MaxTrimLen)

\* adb.rs:24-29 applied to the input
TrimEndCalled ==
    /\ trim_out = <<>>
    /\ trim_out' = <<trim_end(trim_in)>>
    /\ UNCHANGED <<exec_req, exec_cmd, remote, trim_in, config, formatted>>
    /\ UNCHANGED <<pipeVars, sink_full, rootVars, procVars, sessVars>>

\* adb.rs:24-29 applied to its own result
TrimEndCalledAgain ==
    /\ Len(trim_out) = 1
    /\ trim_out' = Append(trim_out, trim_end(trim_out[1]))
    /\ UNCHANGED <<exec_req, exec_cmd, remote, trim_in, config, formatted>>
    /\ UNCHANGED <<pipeVars, sink_full, rootVars, procVars, sessVars>>

TrimInit ==
    /\ NoSession
    /\ exec_req = NoRequest
    /\ exec_cmd = NoCommand
    /\ remote = NotRun
    /\ trim_in \in TrimInputs
    /\ trim_out = <<>>
    /\ config = NoConfig
    /\ formatted = NotFormatted

TrimNext == TrimEndCalled \/ TrimEndCalledAgain

SpecTrim == TrimInit /\ [][TrimNext]_vars

----------------------------------------------------------------------------
(* The formatter of a MultiCheckConfig, rust-extcap config.rs:297-353. A   *)
(* line is the sequence of the {key=text} fields written before writeln!.  *)

\* most checkboxes in the option tree of a config
MaxCheckboxes == 4

CheckboxValues == {"if1", "if2"}

RECURSIVE TreeSize(_)
\* the number of checkboxes of a sequence of option trees
TreeSize(options) ==
    IF options = <<>> THEN 0
    ELSE 1 + TreeSize(Head(options).children) + TreeSize(Tail(options))

RECURSIVE OptionTrees(_)
\* MultiCheckValue::builder(): the sequences of option trees of at most n
\* checkboxes, default_value and enabled at the defaults of the builder
OptionTrees(n) ==
    IF n = 0 THEN {<<>>}
    ELSE {<<>>} \cup
         UNION {UNION {{<<[value |-> v, display |-> v, default_value |-> FALSE,
                           enabled |-> TRUE, children |-> c]>> \o rest :
                            rest \in OptionTrees(n - 1 - TreeSize(c))} :
                       v \in CheckboxValues} :
                c \in OptionTrees(n - 1)}

\* MultiCheckConfig::builder()
MultiCheckConfigs ==
    {[config_number |-> n, call |-> "multi", display |-> "Remote Channel",
      tooltip |-> t, group |-> <<>>, options |-> o] :
        n \in {3, 255}, t \in {<<>>, <<"Remote Channel Selector">>},
        o \in OptionTrees(MaxCheckboxes)}

\* write!(f, "{{key=text}}")
Field(key, text) == [key |-> key, text |-> text]

\* the Display of a bool
BoolText(b) == IF b THEN "true" ELSE "false"

\* a formatter that hands every child the parent its own node was given
RECURSIVE FormatValueParentKept(_, _, _)
FormatValueParentKept(value, config_number, parent) ==
    LET Children(cs) ==
            LET RECURSIVE Each(_)
                Each(rest) ==
                    IF rest = <<>> THEN <<>>
                    ELSE FormatValueParentKept(Head(rest), config_number, parent)
                             \o Each(Tail(rest))
            IN  Each(cs)
    IN  <<[kind |-> "value",
           fields |-> <<Field("arg", ToString(config_number)),
                        Field("value", value.value),
                        Field("display", value.display),
                        Field("default", BoolText(value.default_value)),
                        Field("enabled", BoolText(value.enabled))>>
                      \o (IF parent = <<>> THEN <<>>
                          ELSE <<Field("parent", parent[1].value)>>)]>>
            \o Children(value.children)

\* config.rs:336-353: the line of a checkbox, then the lines of its children,
\* each formatted with this checkbox as its parent
RECURSIVE FormatValue(_, _, _)
FormatValue(value, config_number, parent) ==
    LET Children(cs) ==
            LET RECURSIVE Each(_)
                Each(rest) ==
                    IF rest = <<>> THEN <<>>
                    ELSE FormatValue(Head(rest), config_number, <<value>>)
                             \o Each(Tail(rest))
            IN  Each(cs)
    IN  <<[kind |-> "value",
           fields |-> <<Field("arg", ToString(config_number)),
                        Field("value", value.value),
                        Field("display", value.display),
                        Field("default", BoolText(value.default_value)),
                        Field("enabled", BoolText(value.enabled))>>
                      \o (IF parent = <<>> THEN <<>>
                          ELSE <<Field("parent", parent[1].value)>>)]>>
            \o Children(value.children)

RECURSIVE FormatOptions(_, _)
\* config.rs:310-312: every option of the config, with no parent
FormatOptions(options, config_number) ==
    IF options = <<>> THEN <<>>
    ELSE FormatValue(Head(options), config_number, <<>>)
             \o FormatOptions(Tail(options), config_number)

\* config.rs:297-315
FormatMultiCheckConfig(c) ==
    <<[kind |-> "arg",
       fields |-> <<Field("number", ToString(c.config_number)),
                    Field("call", "--" \o c.call),
                    Field("display", c.display)>>
                  \o (IF c.tooltip = <<>> THEN <<>> ELSE <<Field("tooltip", c.tooltip[1])>>)
                  \o (IF c.group = <<>> THEN <<>> ELSE <<Field("group", c.group[1])>>)
                  \o <<Field("type", "multicheck")>>]>>
        \o FormatOptions(c.options, c.config_number)

\* format!("{}", ExtcapFormatter(&config))
FormatCalled ==
    /\ formatted = NotFormatted
    /\ formatted' = FormatMultiCheckConfig(config)
    /\ UNCHANGED <<exec_req, exec_cmd, remote, trim_in, trim_out, config>>
    /\ UNCHANGED <<pipeVars, sink_full, rootVars, procVars, sessVars>>

FormatInit ==
    /\ NoSession
    /\ exec_req = NoRequest
    /\ exec_cmd = NoCommand
    /\ remote = NotRun
    /\ trim_in = <<>>
    /\ trim_out = <<>>
    /\ config \in MultiCheckConfigs
    /\ formatted = NotFormatted

SpecFormat == FormatInit /\ [][FormatCalled]_vars

----------------------------------------------------------------------------
(* What the source log of a run holds, read off the bytes independently of *)
(* the pipeline                                                            *)

IsWellFormed == input \in WellFormedLogs

\* the records of a well-formed log
Source == CHOOSE rs \in SeqsUpTo(SourceRecords, MaxRecords) : EncodeLog(rs) = input

HasValidFileHeader ==
    /\ Len(input) >= FileHeaderLength
    /\ SubSeq(input, 1, 8) = BtsnoopMagic
    /\ SubSeq(input, 9, 12) = <<0, 0, 0, 1>>

HasBadFileHeader == Len(input) >= FileHeaderLength /\ ~HasValidFileHeader

\* the parsed records whose elapsed sample is above the display delay
PastDelay(r) == r.elapsed > display_delay

Finished == ppc \in {"returned", "panicked"}

----------------------------------------------------------------------------
(* Claims about write_pcap_packets, checked under SpecPipe *)

\* C1: for a well-formed source log of N records and display_delay = 0 the
\* pipeline never panics, returns Ok, has emitted exactly N capture records,
\* and the first 4 bytes of the k-th one are the pseudo-header of the
\* direction of the k-th source record's payload.
C1_ZeroDelayEmitsAll ==
    (IsWellFormed /\ display_delay = 0) =>
        /\ ppc # "panicked"
        /\ Len(pcap.packets) = Len(parsed)
        /\ ppc = "returned" =>
            /\ write_result = "Ok"
            /\ Len(pcap.packets) = Len(Source)
            /\ \A k \in 1..Len(Source) :
                   SubSeq(pcap.packets[k].data, 1, 4)
                       = PseudoHeader(ParseDirection(Source[k].payload))

C1_Witness ==
    /\ IsWellFormed /\ display_delay = 0 /\ ppc = "returned"
    /\ Len(pcap.packets) = 2
    /\ pcap.packets[1].data = <<0, 0, 0, 0, 1>>
    /\ pcap.packets[2].data = <<0, 0, 0, 1, 4>>

\* C2: a record whose elapsed sample is <= display_delay is parsed and not
\* emitted, a record whose sample is above it is emitted, and the emitted
\* records are, in order, a contiguous suffix of the records parsed (of the
\* source records, once a well-formed log has been read to its end).
C2_DelaySuppressesPrefix ==
    LET shown == SelectSeq(parsed, PastDelay)
        hidden == Len(parsed) - Len(shown)
    IN  /\ Len(pcap.packets) = Len(shown)
        /\ \A i \in 1..Len(parsed) : PastDelay(parsed[i]) <=> i > hidden
        /\ \A i \in 1..Len(shown) :
               /\ shown[i] = parsed[hidden + i]
               /\ pcap.packets[i].data
                      = PseudoHeader(ParseDirection(shown[i].payload)) \o shown[i].payload
        /\ (IsWellFormed /\ ppc = "returned") =>
               /\ Len(parsed) = Len(Source)
               /\ \A i \in 1..Len(Source) : parsed[i].payload = Source[i].payload
               /\ pos = Len(input)

C2_Witness ==
    /\ IsWellFormed /\ ppc = "returned" /\ display_delay = 1
    /\ Len(parsed) = 2
    /\ parsed[1].elapsed = 1
    /\ Len(pcap.packets) = 1
    /\ pcap.packets[1].data = <<0, 0, 0, 1, 4>>

\* C5: a source whose file header has a wrong magic tag or version makes the
\* pipeline return a format error as an error value, having read no byte
\* after the 16 header bytes.
C5_BadHeaderReturnsFormatError ==
    (HasBadFileHeader /\ ppc # "read_file_header") =>
        /\ ppc = "returned"
        /\ write_result = "FormatError"
        /\ pos = FileHeaderLength

\* C6: once the record loop has started, the pipeline returns Ok only when the
\* stream ends exactly at a record boundary; a stream that ends inside a
\* record header or inside a payload makes it return an I/O error; and no
\* emitted record is shorter than its header declares.
C6_CleanEndOnlyAtBoundary ==
    LET shown == SelectSeq(parsed, PastDelay)
    IN  (HasValidFileHeader /\ ppc # "read_file_header") =>
            /\ ppc # "panicked"
            /\ ppc = "returned" =>
                   /\ write_result = (IF IsWellFormed THEN "Ok" ELSE "IoError")
                   /\ pos = Len(input)
            /\ \A i \in 1..Len(pcap.packets) :
                   Len(pcap.packets[i].data) = 4 + shown[i].header.included_length

C6_WitnessTruncated ==
    /\ HasValidFileHeader /\ ~IsWellFormed
    /\ ppc = "returned" /\ write_result = "IoError"
    /\ Len(pcap.packets) = 1
    /\ packet_header = NoHeader
    /\ Len(input) > FileHeaderLength + 2 * PacketHeaderLength

----------------------------------------------------------------------------
(* Claims about adb::root, checked under SpecRoot *)

\* the output is "0" followed by nothing but ASCII whitespace
YieldsZero(output) ==
    /\ Len(output) >= 1
    /\ output[1] = 48
    /\ \A i \in 2..Len(output) : output[i] \in {32, 9, 10, 12, 13}

\* C3: a negotiation that returns without an I/O error returns a shell with
\* needs_su = false when the direct uid output is "0" up to trailing
\* whitespace, a shell with needs_su = true when it is not and the output under
\* su is, and RootDeclined when neither is; `su -c id -u` is spawned only after
\* a direct output other than "0".
C3_RootOutcome ==
    \A who \in Who :
        LET direct == neg[who].direct
            su == neg[who].su
        IN  /\ (<<who, "su_id_u">> \in children \/ su # NotQueried) =>
                   (direct # NotQueried /\ ~YieldsZero(direct))
            /\ (rpc[who] = "returned" /\ shell[who] # "IoError") =>
                   /\ direct # NotQueried
                   /\ YieldsZero(direct) =>
                          (shell[who] = "Direct" /\ ~needs_su(shell[who]) /\ su = NotQueried)
                   /\ (~YieldsZero(direct) /\ YieldsZero(su)) =>
                          (shell[who] = "ViaSu" /\ needs_su(shell[who]))
                   /\ (~YieldsZero(direct) /\ ~YieldsZero(su)) =>
                          (shell[who] = "RootDeclined" /\ su # NotQueried)

C3_Witness ==
    /\ rpc["capture"] = "returned"
    /\ shell["capture"] = "ViaSu"
    /\ neg["capture"] = [direct |-> <<49, 48, 48, 48, 10>>, su |-> <<48, 13, 10>>]
    /\ children = {}

----------------------------------------------------------------------------
(* Claims about the capture session, checked under Spec *)

IsPrefix(s, t) == Len(s) <= Len(t) /\ s = SubSeq(t, 1, Len(s))

\* what the control loop did for the n-th packet it read: the mode changes it
\* invoked and the messages it sent, in order
HandlerTrace(n) ==
    LET OfPacket(e) == e.by = "control" /\ e.seq = n
        es == SelectSeq(events, OfPacket)
    IN  [i \in 1..Len(es) |-> es[i].msg]

\* the handler of the n-th packet has returned Ok
HandledOk(n) ==
    \/ n < Len(packet)
    \/ n = Len(packet) /\ pc["control"] \in {"read", "done"}

TurnOnTrace ==
    <<[kind |-> "set_mode", mode |-> "Full"],
      [kind |-> "set_mode_returned"],
      [kind |-> "set_enabled", control |-> 0, enabled |-> FALSE],
      [kind |-> "set_enabled", control |-> 1, enabled |-> TRUE]>>

TurnOffTrace ==
    <<[kind |-> "set_mode", mode |-> "Disabled"],
      [kind |-> "set_mode_returned"],
      [kind |-> "set_enabled", control |-> 1, enabled |-> FALSE],
      [kind |-> "set_enabled", control |-> 0, enabled |-> TRUE]>>

\* C4: what the handler does for a Set command of the turn-on control is, in
\* order, set_mode(Full), its return, then the updates (turn-on disabled,
\* turn-off enabled) and nothing else, all of it once the handler has returned
\* Ok; for the turn-off control it is set_mode(Disabled), its return, then
\* (turn-off disabled, turn-on enabled). No update precedes the return of the
\* mode change.
C4_ModeChangeThenTwoUpdates ==
    \A n \in 1..Len(packet) :
        LET expected ==
                IF packet[n].control_number = 0 THEN TurnOnTrace ELSE TurnOffTrace
        IN  (packet[n].command = "Set" /\ packet[n].control_number \in {0, 1}) =>
                /\ IsPrefix(HandlerTrace(n), expected)
                /\ HandledOk(n) => HandlerTrace(n) = expected

C4_Witness ==
    /\ Len(packet) = 2
    /\ packet[1] = [command |-> "Set", control_number |-> 0]
    /\ packet[2] = [command |-> "Set", control_number |-> 1]
    /\ HandledOk(2)
    /\ HandlerTrace(1) = TurnOnTrace
    /\ HandlerTrace(2) = TurnOffTrace

\* C7 as claimed: a session that ends with an unrecoverable failure exits with
\* a non-zero status, and a session that ends normally exits with status zero.
C7_FailureExitsNonZero ==
    /\ (session \in {"failed", "panicked"}) => ExitStatus # 0
    /\ session = "completed" => ExitStatus = 0

\* C7 as amended: a session that ends with an error value of either future
\* (RootDeclined, an I/O error of the source, of a spawn or of a wait) exits
\* with status zero, as does a session that ends normally; the exit status is
\* non-zero exactly when a future panicked (a malformed file header, an unknown
\* control number).
C7_OnlyPanicExitsNonZero ==
    /\ (\E w \in Who : pc[w] = "failed") => (session = "failed" /\ ExitStatus = 0)
    /\ (\E w \in Who : pc[w] = "panicked") => (session = "panicked" /\ ExitStatus = 101)
    /\ session = "completed" =>
           (ExitStatus = 0 /\ write_result = "Ok" /\ inbound = <<>>)
    /\ ppc = "panicked" => (session = "running" \/ ExitStatus = 101)
    /\ session = "running" => ExitStatus = -1

C7_Witness ==
    /\ session = "failed"
    /\ pc["capture"] = "failed"
    /\ shell["capture"] = "RootDeclined"
    /\ ExitStatus = 0

IsUnknownSet(p) == p.command = "Set" /\ p.control_number \notin {0, 1}

\* the handler of the packet being handled has ended or gone past adb::root
PastNegotiation == pc["control"] \notin {"lock", "root", "dropped"}

C8_WitnessDeclined ==
    /\ packet # <<>> /\ IsUnknownSet(CurrentPacket)
    /\ shell["control"] = "RootDeclined"
    /\ pc["control"] = "failed"

\* C9: a control command that has arrived is dispatched without waiting for
\* the capture loop: while the control loop waits for a packet and one has
\* arrived, the thread is never held by a blocked write of the capture loop.
C9_ControlNeverBlockedByCapture ==
    ~(/\ session = "running"
      /\ pc["control"] = "read"
      /\ inbound # <<>>
      /\ ppc = "blocked_write")

\* C10: when the session has ended, every child process spawned in it has
\* been waited on: none is still running unwaited and no handle was dropped
\* without a wait.
C10_EveryChildWaited ==
    session # "running" => (children = {} /\ orphans = {})

\* the calls of adb::root made by `who` (for the control loop: while handling
\* its n-th packet; for print_packets n is 0)
Negotiations(who, n) ==
    IF <<"adb_root", who, n>> \in DOMAIN attempts THEN attempts[<<"adb_root", who, n>>] ELSE 0

RECURSIVE SumOver(_)
SumOver(keys) ==
    IF keys = {} THEN 0
    ELSE LET k == CHOOSE x \in keys : TRUE
         IN  attempts[k] + SumOver(keys \ {k})

TotalNegotiations == SumOver({a \in DOMAIN attempts : a[1] = "adb_root"})

TailAttempts == SumOver({a \in DOMAIN attempts : a[1] = "tail"})

FinalStatusSent ==
    \E i \in DOMAIN events : events[i] = Event(StatusClosed, "capture", 0)

\* C12: when try_join! has returned the result of the session, Ok or the Err
\* of either activity, the final status message has been sent (the pause
\* follows the message and precedes the return).
C12_FinalStatusBeforeResult ==
    session \in {"completed", "failed"} => FinalStatusSent

\* what getprop answered to the startup query: no answer yet, or one answer,
\* the stdout or NotQueried for a query that failed
QueryResults ==
    IF QueryAnswer \in DOMAIN attempts THEN <<attempts[QueryAnswer]>> ELSE <<>>

\* the stdout is "full" followed by ASCII whitespace only
IsFullOutput(stdout) ==
    /\ stdout # NotQueried
    /\ Len(stdout) >= 4
    /\ SubSeq(stdout, 1, 4) = <<102, 117, 108, 108>>
    /\ \A i \in 5..Len(stdout) : stdout[i] \in {9, 10, 12, 13, 32}

\* the messages print_packets has sent, in order
CaptureTrace ==
    LET ByCapture(e) == e.by = "capture"
        es == SelectSeq(events, ByCapture)
    IN  [i \in 1..Len(es) |-> es[i].msg]

ModeQueries ==
    IF <<"getprop", "capture", 0>> \in DOMAIN attempts
    THEN attempts[<<"getprop", "capture", 0>>] ELSE 0

\* the startup messages are all sent: the tail command is spawned next
StartupDone == <<"tail", "capture", 0>> \in DOMAIN attempts

FullPair ==
    <<[kind |-> "set_enabled", control |-> 0, enabled |-> FALSE],
      [kind |-> "set_enabled", control |-> 1, enabled |-> TRUE]>>

OffPairAndStatus ==
    <<[kind |-> "set_enabled", control |-> 1, enabled |-> FALSE],
      [kind |-> "set_enabled", control |-> 0, enabled |-> TRUE],
      [kind |-> "status_message", text |-> "BTsnoop logging is turned off"]>>

\* the startup messages that answer `result` of the mode query
ExpectedStartup(result) == IF IsFullOutput(result) THEN FullPair ELSE OffPairAndStatus

\* CaptureTrace without the final status message
StartupTrace ==
    LET NotFinal(m) == m # StatusClosed
    IN  SelectSeq(CaptureTrace, NotFinal)

\* C13: a device session queries the logging mode at most once, and exactly
\* once by the time its startup messages are sent; the messages sent are the
\* pair (turn-on disabled, turn-off enabled) and nothing else when getprop
\* answered "full", and the pair (turn-off disabled, turn-on enabled) followed
\* by the status message that logging is off for every other answer and for a
\* failed query.
C13_StartupFollowsModeQuery ==
    /\ ModeQueries <= 1
    /\ QueryResults # <<>> => ModeQueries = 1
    /\ QueryResults = <<>> => (StartupTrace = <<>> \/ StartupTrace = <<InfoRootDeclined>>)
    /\ QueryResults # <<>> => IsPrefix(StartupTrace, ExpectedStartup(QueryResults[1]))
    /\ StartupDone => (QueryResults # <<>> /\ StartupTrace = ExpectedStartup(QueryResults[1]))
    /\ (~local /\ ppc # "read_file_header") => StartupDone

C13_WitnessFull ==
    /\ StartupDone
    /\ device.logmode = <<102, 117, 108, 108, 32, 13, 10>>
    /\ QueryResults = <<device.logmode>>
    /\ CaptureTrace = FullPair

C13_WitnessFiltered ==
    /\ StartupDone
    /\ QueryResults = <<<<102, 105, 108, 116, 101, 114, 101, 100, 10>>>>
    /\ CaptureTrace = OffPairAndStatus

C13_WitnessQueryError ==
    /\ StartupDone
    /\ QueryResults = <<NotQueried>>
    /\ device.logmode = <<102, 117, 108, 108, 10>>
    /\ CaptureTrace = OffPairAndStatus

IsUpdate(e) == e.msg.kind = "set_enabled"

\* C14: every affordance update of the control handler comes after both
\* startup updates of print_packets: in the order of emission no update of
\* the handler precedes a startup update.
C14_StartupUpdatesFirst ==
    \A i, j \in DOMAIN events :
        (/\ IsUpdate(events[i]) /\ events[i].by = "control"
         /\ IsUpdate(events[j]) /\ events[j].by = "capture") => j < i

\* the updates emitted so far for the control `c`, in order
UpdatesOf(c) ==
    LET ForControl(e) == IsUpdate(e) /\ e.msg.control = c
    IN  SelectSeq(events, ForControl)

\* the control `c` is enabled according to the last update emitted for it
Enabled(c) ==
    /\ UpdatesOf(c) # <<>>
    /\ UpdatesOf(c)[Len(UpdatesOf(c))].msg.enabled

\* C15: once the startup messages are sent, the turn-on and the turn-off
\* control are never both enabled, and whenever no handler stands between its
\* two updates exactly one of them is enabled.
C15_ExactlyOneEnabled ==
    StartupDone =>
        /\ ~(Enabled(0) /\ Enabled(1))
        /\ (session = "running" /\ pc["control"] # "send_second") =>
               (Enabled(0) \/ Enabled(1))

----------------------------------------------------------------------------
(* Claims about the command executor, checked under SpecExec *)

IsSuffix(s, t) == Len(s) <= Len(t) /\ s = SubSeq(t, Len(t) - Len(s) + 1, Len(t))

C17_StderrSuppressed ==
    exec_cmd # NoCommand => exec_cmd.stderr = "null"

----------------------------------------------------------------------------
(* write_pcap_packets on source logs whose original_length field takes any *)
(* 32-bit value, the largest ones included                                 *)

\* most records in such a log
MaxWideRecords == 2

\* original_length as its four big-endian bytes: 1, 2^31 - 1, 2^32 - 5,
\* 2^32 - 4 and 2^32 - 1
WideLengths ==
    {<<0, 0, 0, 1>>, <<127, 255, 255, 255>>, <<255, 255, 255, 251>>,
     <<255, 255, 255, 252>>, <<255, 255, 255, 255>>}

WideRecords ==
    {[original_length |-> l, payload |-> p] : l \in WideLengths, p \in {<<1>>, <<2, 7>>}}

EncodeWideRecord(r) ==
    r.original_length \o Be32(Len(r.payload)) \o Be32(0) \o Be32(0)
        \o <<0, 0, 0, 0, 0, 0, 0, 0>> \o r.payload

RECURSIVE EncodeWideRecords(_)
EncodeWideRecords(rs) ==
    IF rs = <<>> THEN <<>> ELSE EncodeWideRecord(Head(rs)) \o EncodeWideRecords(Tail(rs))

WideInputs ==
    {GoodFileHeader \o EncodeWideRecords(rs) : rs \in SeqsUpTo(WideRecords, MaxWideRecords)}

WideInit ==
    /\ input \in WideInputs
    /\ display_delay \in 0..MaxDelay
    /\ PipeStart
    /\ NoCalls
    /\ sink_full = FALSE
    /\ RootIdle
    /\ device = [id_u |-> Zero, su_id_u |-> Zero, logmode |-> <<>>]
    /\ pc = [control |-> "done", capture |-> "pipeline"]
    /\ local = TRUE
    /\ inbound = <<>>
    /\ packet = <<>>
    /\ lock = "free"
    /\ outbox = <<>>
    /\ events = <<>>
    /\ session = "running"

SpecWide == WideInit /\ [][PipeNext]_vars

----------------------------------------------------------------------------
(* Claims about the capture records, checked under SpecWide *)

\* the two 16-bit halves of a big-endian u32
Hi16(b) == b[1] * 256 + b[2]

Lo16(b) == b[3] * 256 + b[4]

\* the u32 `stored` is the number `length` + k, k < 65536, with no wrap
IsExactSum(stored, length, k) ==
    IF Lo16(length) + k < 65536
    THEN Hi16(stored) = Hi16(length) /\ Lo16(stored) = Lo16(length) + k
    ELSE Hi16(stored) = Hi16(length) + 1 /\ Lo16(stored) = Lo16(length) + k - 65536

\* C18: every emitted capture record holds the 4-byte pseudo-header followed
\* by the source payload, its captured length is 4 + included_length, and its
\* stored original length is exactly original_length + 4, for every 32-bit
\* original_length, those within 4 of the 32-bit maximum included.
C18_OrigLenExactSum ==
    LET shown == SelectSeq(parsed, PastDelay)
    IN  \A i \in 1..Len(pcap.packets) :
            /\ pcap.packets[i].data
                   = PseudoHeader(ParseDirection(shown[i].payload)) \o shown[i].payload
            /\ Len(pcap.packets[i].data) = 4 + shown[i].header.included_length
            /\ IsExactSum(pcap.packets[i].orig_len, shown[i].header.original_length, 4)

----------------------------------------------------------------------------
(* Claims about flushing, checked under SpecPipe *)

\* how many times flush() was called on a stream
FlushesOf(stream) == Len(SelectSeq(flushed, LAMBDA s : s = stream))

\* C19: whenever the pipeline is about to read the next source record, the
\* sink that received the capture records has been flushed once for each
\* record written to it, so no record stays buffered in the writer.
C19_SinkFlushedAfterEachRecord ==
    ppc = "read_packet_header" => FlushesOf("sink") >= Len(pcap.packets)

----------------------------------------------------------------------------
(* Claims about trim_end, checked under SpecTrim *)

\* C20: trim_end(x) is the longest prefix of x that does not end in an ASCII
\* whitespace byte (space, tab, CR, LF, form feed): every byte it removes is
\* trailing whitespace, no interior or leading byte changes, an input that is
\* all whitespace gives the empty string, and trimming the result again
\* changes nothing.
C20_TrimEndLongestCleanPrefix ==
    LET whitespace == {32, 9, 13, 10, 12}
    IN  /\ Len(trim_out) >= 1 =>
            LET x == trim_in
                y == trim_out[1]
            IN  /\ IsPrefix(y, x)
                /\ y = <<>> \/ y[Len(y)] \notin whitespace
                /\ \A i \in (Len(y) + 1)..Len(x) : x[i] \in whitespace
                /\ (\A i \in 1..Len(x) : x[i] \in whitespace) => y = <<>>
        /\ Len(trim_out) = 2 => trim_out[2] = trim_out[1]

\* " h\n" trimmed to " h", and " h" trimmed to itself
C20_Witness ==
    /\ trim_in = <<32, 104, 10>>
    /\ trim_out = << <<32, 104>>, <<32, 104>> >>

----------------------------------------------------------------------------
(* Claims about the formatter of a MultiCheckConfig, checked under         *)
(* SpecFormat. A checkbox is named by its path: the index of its top-level *)
(* option, then the index of each child on the way down.                   *)

RECURSIVE PathsOf(_)
PathsOf(options) ==
    UNION {{<<i>>} \cup {<<i>> \o q : q \in PathsOf(options[i].children)} :
           i \in 1..Len(options)}

RECURSIVE NodeAt(_, _)
NodeAt(options, path) ==
    IF Len(path) = 1 THEN options[path[1]]
    ELSE NodeAt(options[path[1]].children, Tail(path))

\* p comes before q in pre-order: p is a proper prefix of q, or p is to the
\* left of q where they first differ
Precedes(p, q) ==
    \/ Len(p) < Len(q) /\ SubSeq(q, 1, Len(p)) = p
    \/ \E k \in 1..Min(Len(p), Len(q)) :
           /\ SubSeq(p, 1, k - 1) = SubSeq(q, 1, k - 1)
           /\ p[k] < q[k]

\* the text of the field `key` of a line: none, or one
TextOf(line, key) ==
    LET HasKey(f) == f.key = key
        fs == SelectSeq(line.fields, HasKey)
    IN  [i \in 1..Len(fs) |-> fs[i].text]

\* C21: the formatter writes one arg line, then one value line per checkbox
\* in pre-order; every value line has arg = the config number, the line of a
\* top-level checkbox has no parent field, and the line of a nested checkbox
\* at any depth has parent = the value of its immediate parent.
C21_ValueLinesInPreOrder ==
    formatted # NotFormatted =>
        LET paths == PathsOf(config.options)
            LineOf(p) == formatted[2 + Cardinality({q \in paths : Precedes(q, p)})]
        IN  /\ Len(formatted) = 1 + Cardinality(paths)
            /\ formatted[1].kind = "arg"
            /\ \A k \in 2..Len(formatted) :
                   /\ formatted[k].kind = "value"
                   /\ TextOf(formatted[k], "arg") = <<ToString(config.config_number)>>
            /\ \A p \in paths :
                   /\ TextOf(LineOf(p), "value") = <<NodeAt(config.options, p).value>>
                   /\ TextOf(LineOf(p), "parent") =
                          IF Len(p) = 1 THEN <<>>
                          ELSE <<NodeAt(config.options, SubSeq(p, 1, Len(p) - 1)).value>>

\* if1 > if2 > if1, then if2 at the top level: three levels of nesting
C21_Witness ==
    /\ formatted # NotFormatted
    /\ Len(formatted) = 5
    /\ TextOf(formatted[2], "parent") = <<>>
    /\ TextOf(formatted[3], "parent") = <<"if1">>
    /\ TextOf(formatted[4], "parent") = <<"if2">>
    /\ TextOf(formatted[5], "parent") = <<>>

----------------------------------------------------------------------------
(* Claims about the first step of adb::root, checked under SpecRoot *)

\* C27: the device-level root request is best effort: whether `adb root`
\* fails to start, fails while it is waited on or exits with any status, the
\* negotiation goes on to the direct uid query, so no negotiation returns
\* without having tried to run `id -u`.
C27_RootRequestBestEffort ==
    \A who \in Who :
        rpc[who] = "returned" => Attempt("id_u", who) \in DOMAIN attempts

----------------------------------------------------------------------------
(* Claims about the cursor of write_pcap_packets, checked under SpecPipe *)

RECURSIVE RecordBytes(_)
\* the bytes the records of `records` take in the stream: a 24-byte header
\* and included_length bytes of payload each
RecordBytes(records) ==
    IF records = <<>> THEN 0
    ELSE 24 + Head(records).header.included_length + RecordBytes(Tail(records))

\* C22: after the first k records the pipeline has consumed 16 bytes plus, for
\* each record, 24 bytes and its included_length, whatever the display delay
\* and whichever records were suppressed; so every record of a well-formed
\* log is parsed as the source holds it, and the emitted records are the ones
\* past the delay and no other: a suppressed record is never emitted later.
C22_CursorIgnoresSuppression ==
    /\ ppc = "read_packet_header" => pos = 16 + RecordBytes(parsed)
    /\ ppc = "read_payload" => pos = 16 + RecordBytes(parsed) + 24
    /\ IsWellFormed =>
           /\ Len(parsed) <= Len(Source)
           /\ \A i \in 1..Len(parsed) :
                  /\ parsed[i].header.included_length = Len(Source[i].payload)
                  /\ parsed[i].payload = Source[i].payload
    /\ LET shown == SelectSeq(parsed, PastDelay)
       IN  /\ Len(pcap.packets) = Len(shown)
           /\ \A i \in 1..Len(shown) :
                  SubSeq(pcap.packets[i].data, 5, Len(pcap.packets[i].data))
                      = shown[i].payload

\* two records of different sizes read to the end, the first one suppressed
C22_Witness ==
    /\ IsWellFormed /\ ppc = "read_packet_header" /\ pos = Len(input)
    /\ display_delay = 1
    /\ Len(parsed) = 2
    /\ parsed[1].payload = <<2, 7>> /\ ~PastDelay(parsed[1])
    /\ parsed[2].payload = <<4>> /\ PastDelay(parsed[2])
    /\ Len(pcap.packets) = 1
    /\ pos = 16 + 24 + 2 + 24 + 1

----------------------------------------------------------------------------
(* Claims about the capture session, checked under Spec *)

\* C23: the session runs until either activity terminates: once the control
\* loop has ended on the close of the inbound channel, or the capture loop has
\* ended, the session is over, whatever the other activity is doing.
C23_EitherEndEndsSession ==
    (\E who \in Who : pc[who] = "done") => session # "running"

\* C24: in a session on a `local:` source the capture loop negotiates no root,
\* queries no mode, spawns no device command and sends no affordance update:
\* the only message it sends is the final status message, after the file has
\* been streamed.
C24_LocalSessionTouchesNoDevice ==
    local =>
        /\ \A a \in DOMAIN attempts : a[2] # "capture"
        /\ rpc["capture"] = "idle"
        /\ neg["capture"] = NoQueries
        /\ shell["capture"] = "None"
        /\ \A c \in children : c[1] # "capture"
        /\ CaptureTrace \in {<<>>, <<StatusClosed>>}
        /\ CaptureTrace = <<StatusClosed>> => ppc = "returned"
        /\ pc["capture"] = "done" => (CaptureTrace = <<StatusClosed>> /\ write_result = "Ok")

\* a local file streamed to its end while the control loop handled a packet
C24_Witness ==
    /\ local /\ pc["capture"] = "done"
    /\ CaptureTrace = <<StatusClosed>>
    /\ Len(pcap.packets) = 1
    /\ Len(packet) = 1
    /\ <<"adb_root", "control", 1>> \in DOMAIN attempts

----------------------------------------------------------------------------
(* Claims about the direction of a record, checked under SpecPipe *)

\* the emitted record and the parsed record it was made from, in pairs
EmittedPairs ==
    LET shown == SelectSeq(parsed, PastDelay)
    IN  {<<pcap.packets[i], shown[i]>> : i \in 1..Min(Len(pcap.packets), Len(shown))}

\* C25: the pseudo-header of an emitted record depends on the first payload
\* byte only: indicator 1 gives SentFromHost, indicator 4 ReceivedByHost,
\* every other first byte and the empty payload Unknown; records with equal
\* payloads get equal pseudo-headers whatever their flags, drop_count and
\* lengths; and a well-formed log never makes the pipeline fail.
C25_DirectionFromFirstByteOnly ==
    /\ \A e \in EmittedPairs :
           SubSeq(e[1].data, 1, 4) =
               IF e[2].payload = <<>> THEN <<255, 255, 255, 255>>
               ELSE IF e[2].payload[1] = 1 THEN <<0, 0, 0, 0>>
               ELSE IF e[2].payload[1] = 4 THEN <<0, 0, 0, 1>>
               ELSE <<255, 255, 255, 255>>
    /\ \A e1 \in EmittedPairs, e2 \in EmittedPairs :
           e1[2].payload = e2[2].payload =>
               SubSeq(e1[1].data, 1, 4) = SubSeq(e2[1].data, 1, 4)
    /\ IsWellFormed =>
           /\ ppc # "panicked"
           /\ ppc = "returned" => write_result = "Ok"

\* the same payload logged with flags 0 and with flags 1: one pseudo-header
C25_Witness ==
    /\ IsWellFormed /\ ppc = "returned"
    /\ Len(pcap.packets) = 2
    /\ parsed[1].payload = <<1>> /\ parsed[1].header.flags = 0
    /\ parsed[2].payload = <<1>> /\ parsed[2].header.flags = 1
    /\ parsed[1].header.original_length # parsed[2].header.original_length
    /\ pcap.packets[1].data = <<0, 0, 0, 0, 1>>
    /\ pcap.packets[2].data = <<0, 0, 0, 0, 1>>

\* the same payload logged with and without dropped packets before it
C25_WitnessDropCount ==
    /\ IsWellFormed /\ ppc = "returned"
    /\ Len(pcap.packets) = 2
    /\ parsed[1].payload = <<4>> /\ parsed[1].header.drop_count = 0
    /\ parsed[2].payload = <<4>> /\ parsed[2].header.drop_count = 1
    /\ pcap.packets[1].data = pcap.packets[2].data

----------------------------------------------------------------------------
(* Claims about the source header, checked under SpecPipe *)

\* the pipeline has read a record header, or more
RecordReadStarted == packet_header # NoHeader \/ parsed # <<>> \/ pos > FileHeaderLength

\* C26: the source header is read and validated once, before the first record
\* header is read: the pipeline is at the header read only with nothing
\* consumed and never comes back to it; the file header of the output is
\* written only after a valid source header; and from a source shorter than
\* 16 bytes nothing is written to the output.
C26_HeaderValidatedOnceFirst ==
    /\ [](/\ ppc = "read_file_header" =>
                (pos = 0 /\ ~pcap.header /\ pcap.packets = <<>> /\ ~RecordReadStarted)
          /\ (RecordReadStarted /\ ppc # "returned") => HasValidFileHeader
          /\ parsed # <<>> => HasValidFileHeader
          /\ (pcap.header \/ pcap.packets # <<>>) =>
                (HasValidFileHeader /\ pos >= 16 /\ ppc # "read_file_header")
          /\ Len(input) < 16 => (~pcap.header /\ pcap.packets = <<>>))
    /\ [][ppc # "read_file_header" => ppc' # "read_file_header"]_vars

\* a record read after the header was validated and the output header written
C26_Witness ==
    /\ pcap.header /\ Len(parsed) = 1 /\ Len(pcap.packets) = 1
    /\ ppc = "read_packet_header" /\ pos = 16 + 24 + 1

\* a source of 15 bytes read to its end
C26_WitnessShort ==
    /\ Len(input) = 15 /\ ppc = "returned" /\ write_result = "IoError"
    /\ ~pcap.header

\* the control loop has called adb::root for the n-th packet it read
NegotiatedFor(n) == <<"adb_root", "control", n>> \in DOMAIN attempts

\* C29: an error returned by the control handler ends the session and cancels
\* the capture loop; every control packet, whatever its command, gets a root
\* negotiation of its own before it is examined; so when the device declines
\* root the handler fails with RootDeclined and the capture ends, in a
\* `local:` session and for a command other than Set as well.
C29_HandlerErrorEndsCapture ==
    /\ pc["control"] = "failed" =>
           (session = "failed" /\ pc["capture"] \in {"dropped", "done"})
    /\ \A n \in 1..Len(packet) :
           \/ NegotiatedFor(n)
           \/ n = Len(packet) /\ (pc["control"] \in {"lock", "dropped"}
                                    \/ rpc["control"] = "call")
    /\ \A i \in 1..Len(events) :
           events[i].by = "control" => NegotiatedFor(events[i].seq)
    /\ pc["control"] = "panicked" => NegotiatedFor(Len(packet))
    /\ (shell["control"] = "RootDeclined" /\ rpc["control"] = "idle") =>
           (pc["control"] = "failed" /\ session = "failed")

\* a local file being streamed when a packet that is no Set command arrives
\* and the device declines root
C29_Witness ==
    /\ local
    /\ packet # <<>> /\ Dispatch(CurrentPacket) = "ignore"
    /\ shell["control"] = "RootDeclined"
    /\ session = "failed"
    /\ pc = [control |-> "failed", capture |-> "dropped"]
    /\ ppc = "read_packet_header" /\ Len(pcap.packets) = 1

\* the affordance updates the handler of the n-th packet has sent
UpdatesFor(n) ==
    LET IsSetEnabled(m) == m.kind = "set_enabled"
    IN  SelectSeq(HandlerTrace(n), IsSetEnabled)

\* set_mode has returned Ok to the handler of the n-th packet: its command
\* was spawned and waited on
ModeChangeReturned(n) ==
    \E i \in 1..Len(HandlerTrace(n)) : HandlerTrace(n)[i].kind = "set_mode_returned"

\* C30: the handler of a Set command sends no affordance update unless the
\* negotiation and the mode change have both returned Ok, so a handler that
\* returns an error has sent none; and once the mode-change command has been
\* spawned and waited on the handler sends both updates, whatever the exit
\* status of the command.
C30_UpdatesFollowInvocationNotOutcome ==
    \A n \in 1..Len(packet) :
        /\ ~ModeChangeReturned(n) => UpdatesFor(n) = <<>>
        /\ (n = Len(packet) /\ pc["control"] = "failed") =>
               (UpdatesFor(n) = <<>> /\ ~ModeChangeReturned(n))
        /\ (ModeChangeReturned(n) /\ HandledOk(n)) => Len(UpdatesFor(n)) = 2
        /\ Len(UpdatesFor(n)) <= 2

\* the turn-on command was handled and both updates sent, and the device
\* still logs nothing: the mode-change command ran and changed nothing
C30_Witness ==
    /\ Len(packet) = 1
    /\ packet[1] = [command |-> "Set", control_number |-> 0]
    /\ HandledOk(1)
    /\ UpdatesFor(1) = <<[kind |-> "set_enabled", control |-> 0, enabled |-> FALSE],
                         [kind |-> "set_enabled", control |-> 1, enabled |-> TRUE]>>
    /\ device.logmode = <<100, 105, 115, 97, 98, 108, 101, 100, 10>>

\* the mode change could not be spawned: the handler failed and sent nothing
C30_WitnessError ==
    /\ Len(packet) = 1
    /\ packet[1] = [command |-> "Set", control_number |-> 1]
    /\ pc["control"] = "failed"
    /\ shell["control"] = "Direct"
    /\ HandlerTrace(1) = <<[kind |-> "set_mode", mode |-> "Disabled"]>>

----------------------------------------------------------------------------
(* Claims about the mutex of the outbound sender, checked under SpecLive *)

\* C28: the two loops never deadlock on the mutex of the outbound sender: the
\* control loop holds it from the grant to the end of the handling of one
\* packet, the sender of the capture loop for one message, and while a loop
\* waits for it the mutex belongs to one of the two; and every request is
\* granted in the end, unless the session ends first.
C28_LockAlwaysGranted ==
    /\ [](/\ lock \in {"free", "control", "capture"}
          /\ (lock = "control" /\ session = "running") =>
                pc["control"] \in {"lock", "root", "wait_set_mode", "send_first", "send_second"}
          /\ (lock = "capture" /\ session = "running") =>
                pc["capture"] \in {"lock_message", "write_message"}
          /\ pc["control"] \in {"root", "wait_set_mode", "send_first", "send_second"} =>
                lock = "control"
          /\ pc["capture"] = "write_message" => lock = "capture"
          /\ (session = "running" /\ \E who \in Who : WaitsForLock(who)) => lock \in Who)
    /\ \A who \in Who :
           (WaitsForLock(who) /\ lock # who) ~> (lock = who \/ session # "running")

\* the control loop waits for the mutex while the sender of print_packets
\* holds it
C28_Witness ==
    /\ session = "running"
    /\ WaitsForLock("control") /\ lock = "capture"
    /\ pc["capture"] = "write_message"

\* print_packets waits for the mutex while the handler holds it
C28_WitnessCaptureWaits ==
    /\ session = "running"
    /\ WaitsForLock("capture") /\ lock = "control"
    /\ pc["control"] = "wait_set_mode"

=============================================================================
